---- MODULE Spec2Model ----
(***************************************************************************)
(* The unit-aware Parameter algebra of technologydata                      *)
(* (src/technologydata/parameter.py, src/technologydata/utils/units.py).   *)
(*                                                                         *)
(* Texts of unit expressions are sequences of factors <<[t, e], ...>> in   *)
(* the order in which they are written; a token t is [n, y]: a currency    *)
(* token "USD_2020" is [n |-> "USD", y |-> 2020], every other token has    *)
(* y = 0.  A parsed pint.Unit is the sequence of its factors with aliases  *)
(* expanded, exponents merged and names sorted.  Python's None is the      *)
(* empty tuple, a present value x is <<x>>.  Magnitudes are rationals      *)
(* [n, d]; d = 0 is the float NaN.                                         *)
(*                                                                         *)
(* An operator that uses an intermediate result more than once binds it   *)
(* as the parameter of a local operator (LET Checked(r) == ... IN          *)
(* Checked(f(x))), so that the result is computed once, as the code        *)
(* computes it once and keeps it in a local variable.                      *)
(***************************************************************************)
EXTENDS Integers, Sequences, FiniteSets, TLC

VARIABLES
    params,     \* the Parameter objects bound to the names p and q
    depth,      \* how many results were chained into each name
    ureg,       \* ureg._units restricted to currency units: token -> definition
    last,       \* the last call: what was called, on what, and how it ended
    memo,       \* the lru_cache of get_conversion_rate, least recently used first
    deflated,   \* the argument tuples pydeflate was called with: once, and again
    cache,      \* the content of the file CURRENCY_CODES_CACHE, None if it is absent
    feed,       \* Country.countriesdata()["currencies"], the live feed
    model,      \* a LinearGrowth object
    extracted,  \* the lru_cache of extract_currency_units: (units, list) pairs
    threads,    \* each thread's position in ensure_currency_is_unit
    defines     \* the calls of ureg.define made by the threads, in order

param_vars == <<params, depth, ureg>>
rate_vars == <<memo, deflated>>
cache_vars == <<cache, feed>>
growth_vars == <<model>>
extract_vars == <<extracted>>
thread_vars == <<threads, defines>>

vars == <<params, depth, ureg, last, memo, deflated, cache, feed, model, extracted,
         threads, defines>>

---------------------------------------------------------------------------
(* Optional values and exceptions *)

None == <<>>
Some(x) == <<x>>
Val(o) == o[1]
Truthy(o) == o # None

Ok(v) == [err |-> "", val |-> v]
Raise(e) == [err |-> e, val |-> None]

---------------------------------------------------------------------------
(* Floats as rationals *)

RECURSIVE GCD(_, _)
GCD(a, b) == IF b = 0 THEN a ELSE GCD(b, a % b)

Abs(x) == IF x < 0 THEN -x ELSE x

NaN == [n |-> 0, d |-> 0]
IsNaN(r) == r.d = 0

Rat(n, d) ==
    IF d = 0 THEN NaN
    ELSE LET g == GCD(Abs(n), Abs(d))
             s == IF d < 0 THEN -1 ELSE 1
         IN  [n |-> (s * n) \div g, d |-> (s * d) \div g]

Int2Rat(i) == [n |-> i, d |-> 1]

\* the factors are reduced crosswise before they are multiplied
RMul(a, b) ==
    IF IsNaN(a) \/ IsNaN(b) THEN NaN
    ELSE LET x == Rat(a.n, b.d)
             y == Rat(b.n, a.d)
         IN  Rat(x.n * y.n, x.d * y.d)
RDiv(a, b) == IF IsNaN(a) \/ IsNaN(b) THEN NaN ELSE RMul(a, Rat(b.d, b.n))
RAdd(a, b) == IF IsNaN(a) \/ IsNaN(b) THEN NaN ELSE Rat(a.n * b.d + b.n * a.d, a.d * b.d)
RSub(a, b) == IF IsNaN(a) \/ IsNaN(b) THEN NaN ELSE Rat(a.n * b.d - b.n * a.d, a.d * b.d)

RECURSIVE RPow(_, _)
RPow(r, e) ==
    IF e = 0 THEN Int2Rat(1)
    ELSE IF e > 0 THEN RMul(r, RPow(r, e - 1))
    ELSE RDiv(Int2Rat(1), RPow(r, -e))

\* float == float: NaN is equal to nothing, itself included
FloatEq(a, b) == ~IsNaN(a) /\ ~IsNaN(b) /\ a = b

---------------------------------------------------------------------------
(* Tokens and the three pint registries *)

Tok(name) == [n |-> name, y |-> 0]
Cur(code, year) == [n |-> code, y |-> year]

\* CURRENCY_UNIT_PATTERN: \b[A-Z]{3}_\d{4}\b
CURRENCY_UNIT_PATTERN(tok) == tok.y # 0

USD_2020 == Cur("USD", 2020)
EUR_2023 == Cur("EUR", 2023)
XYZ_2020 == Cur("XYZ", 2020)
XYZ_2021 == Cur("XYZ", 2021)
EUR_2015 == Cur("EUR", 2015)

\* the names pint sorts by, in the order of their strings
NameOrder ==
    <<"EUR", "USD", "XYZ", "higher_heating_value", "hydrogen", "kilowatt",
      "lower_heating_value", "megawatt", "methane">>

NameIndex(name) == CHOOSE i \in 1..Len(NameOrder) : NameOrder[i] = name
Before(a, b) ==
    \/ NameIndex(a.n) < NameIndex(b.n)
    \/ NameIndex(a.n) = NameIndex(b.n) /\ a.y <= b.y

\* alias -> canonical name, per registry
Aliases(reg) ==
    CASE reg = "ureg"  -> [kW |-> "kilowatt", kilowatt |-> "kilowatt",
                           MW |-> "megawatt", megawatt |-> "megawatt"]
      [] reg = "creg"  -> [H2 |-> "hydrogen", hydrogen |-> "hydrogen",
                           CH4 |-> "methane", methane |-> "methane"]
      [] reg = "hvreg" -> [LHV |-> "lower_heating_value",
                           lower_heating_value |-> "lower_heating_value",
                           HHV |-> "higher_heating_value",
                           higher_heating_value |-> "higher_heating_value"]

\* is the token a unit of the registry (units: the currency units of ureg)
Defined(reg, units, tok) ==
    IF CURRENCY_UNIT_PATTERN(tok)
    THEN reg = "ureg" /\ tok \in DOMAIN units
    ELSE tok.n \in DOMAIN Aliases(reg)

CanonTok(reg, tok) ==
    IF CURRENCY_UNIT_PATTERN(tok) THEN tok ELSE Tok(Aliases(reg)[tok.n])

RECURSIVE SortToks(_)
SortToks(S) ==
    IF S = {} THEN <<>>
    ELSE LET m == CHOOSE x \in S : \A z \in S : Before(x, z)
         IN  <<m>> \o SortToks(S \ {m})

RECURSIVE ExpSum(_, _, _)
\* the exponent of canonical token tok in the text
ExpSum(reg, text, tok) ==
    IF text = <<>> THEN 0
    ELSE (IF CanonTok(reg, Head(text).t) = tok THEN Head(text).e ELSE 0)
         + ExpSum(reg, Tail(text), tok)

\* a UnitsContainer: canonical names, merged exponents, none of them zero, sorted
Container(reg, text) ==
    LET toks == {CanonTok(reg, text[i].t) : i \in 1..Len(text)}
        live == {t \in toks : ExpSum(reg, text, t) # 0}
        Factors(srt) ==
            [i \in 1..Len(srt) |-> [t |-> srt[i], e |-> ExpSum(reg, text, srt[i])]]
    IN  Factors(SortToks(live))

\* reg.Unit(text): pint.errors.UndefinedUnitError on a token the registry lacks
ParseUnit(reg, units, text) ==
    IF \E i \in 1..Len(text) : ~Defined(reg, units, text[i].t)
    THEN Raise("UndefinedUnitError")
    ELSE Ok(Container(reg, text))

IsPos(f) == f.e > 0
IsNeg(f) == f.e < 0

\* str(pint.Unit): "a * b ** 2 / c", names sorted, the numerator first
StrUnit(u) == SelectSeq(u, IsPos) \o SelectSeq(u, IsNeg)

\* u1 * u2 and u1 / u2 of pint.Unit
Invert(u) == [i \in 1..Len(u) |-> [t |-> u[i].t, e |-> -u[i].e]]
UnitMul(reg, u1, u2) == Container(reg, u1 \o u2)
UnitDiv(reg, u1, u2) == Container(reg, u1 \o Invert(u2))

---------------------------------------------------------------------------
(* Currency units: utils/units.py *)

\* Country.countriesdata()["currencies"]: ISO3 country code -> currency code
countriesdata == [USA |-> "USD", DEU |-> "EUR", FRA |-> "EUR"]

\* json.dump of a dict of strings: the JSON object, its members in no order
JsonDump(currencies) == {<<iso3, currencies[iso3]>> : iso3 \in DOMAIN currencies}

\* json.load of a JSON object: the dict
JsonLoad(object) ==
    [iso3 \in {member[1] : member \in object} |->
        (CHOOSE member \in object : member[1] = iso3)[2]]

\* get_iso3_to_currency_codes(refresh, ignore_cache) with the cache file and
\* the live feed it finds: [val, cache], the dict returned and the file left
get_iso3_to_currency_codes(file, countries, refresh, ignore_cache) ==
    LET Unlinked(found) ==
            CASE ignore_cache -> [val |-> countries, cache |-> found]
              [] found = None -> [val |-> countries, cache |-> Some(JsonDump(countries))]
              [] OTHER -> [val |-> JsonLoad(Val(found)), cache |-> found]
    IN  Unlinked(IF refresh THEN None ELSE file)

\* set(currencies.values())
Values(currencies) == {currencies[iso3] : iso3 \in DOMAIN currencies}

\* all_currency_codes = set(get_iso3_to_currency_codes().values()), read from
\* a cache file that holds the live feed
all_currency_codes == Values(countriesdata)

IsCurrencyFactor(f) == CURRENCY_UNIT_PATTERN(f.t)

\* a plausible slip: sorted(set(matches)), order and duplicates are lost
FindAll_Sorted(text) ==
    SortToks({text[i].t : i \in {k \in 1..Len(text) : IsCurrencyFactor(text[k])}})

\* CURRENCY_UNIT_PATTERN.findall(units), rebuilt as "{code}_{year}"
FindAll(text) ==
    LET m == SelectSeq(text, IsCurrencyFactor)
    IN  [i \in 1..Len(m) |-> m[i].t]

\* extract_currency_units.__wrapped__, the function under @lru_cache, with
\* the codes that get_iso3_to_currency_codes() returns to it. [err, val]: the
\* list returned, or the ValueError and the tokens its message names
extract_currency_units_wrapped(codes, text) ==
    LET Checked(matches) ==
            LET invalid_codes ==
                    {matches[i].n : i \in 1..Len(matches)} \ codes
                invalid_currencies ==
                    SelectSeq(matches, LAMBDA match : match.n \in invalid_codes)
            IN  IF Len(matches) = 0 THEN Ok(<<>>)
                ELSE IF invalid_codes # {}
                THEN [err |-> "ValueError", val |-> invalid_currencies]
                ELSE Ok(matches)
    IN  Checked(FindAll(text))

\* extract_currency_units(text) with a cache file that holds the live feed,
\* where the memo of @lru_cache answers what the function computes
extract_currency_units(text) == extract_currency_units_wrapped(all_currency_codes, text)

\* extract_currency_units(text) under @lru_cache with the memo, the cache file
\* and the live feed it finds: [err, val, extracted, cache]. A list returned
\* is kept in the memo, an exception is not; maxsize is 128, more than the
\* texts of the model.
lru_extract_currency_units(hits, file, countries, text) ==
    LET Missed(currencies) ==
            LET r == extract_currency_units_wrapped(Values(currencies.val), text)
            IN  [err |-> r.err, val |-> r.val,
                 extracted |-> IF r.err = "" THEN hits \cup {<<text, r.val>>} ELSE hits,
                 cache |-> currencies.cache]
    IN  IF \E hit \in hits : hit[1] = text
        THEN [err |-> "", val |-> (CHOOSE hit \in hits : hit[1] = text)[2],
              extracted |-> hits, cache |-> file]
        ELSE Missed(get_iso3_to_currency_codes(file, countries, FALSE, FALSE))

\* SpecialUnitRegistry.__init__: define("USD_2020 = [currency]")
BaseUnit == [f |-> Int2Rat(1), of |-> None]
NanUnit(reference_currency) == [f |-> NaN, of |-> Some(reference_currency)]
SpecialUnitRegistry == [t \in {USD_2020} |-> BaseUnit]

get_reference_currency(units) ==
    LET reference_currency == {t \in DOMAIN units : units[t].of = None}
    IN  IF Cardinality(reference_currency) # 1 THEN Raise("ValueError")
        ELSE Ok(CHOOSE t \in reference_currency : TRUE)

\* a plausible slip: the test "currency_unit in self._units" is lost, every
\* token of currency_units is defined anew
DefineMissing_Redefine(units, currency_units, reference_currency) ==
    LET new == {currency_units[i] : i \in 1..Len(currency_units)}
    IN  [t \in DOMAIN units \cup new |->
            IF t \in new THEN NanUnit(reference_currency) ELSE units[t]]

\* the registry after self.define(f"{currency_unit} = nan {reference_currency}")
\* for every token of currency_units that is not yet in self._units
DefineMissing(units, currency_units, reference_currency) ==
    LET new == {currency_units[i] : i \in 1..Len(currency_units)}
    IN  [t \in DOMAIN units \cup new |->
            IF t \in DOMAIN units THEN units[t] ELSE NanUnit(reference_currency)]

\* [err, units]: the exception raised, if any, and the registry afterwards
ensure_currency_is_unit(units, text) ==
    LET Ensured(currency_units, reference_currency) ==
            CASE currency_units.err # "" -> [err |-> currency_units.err, units |-> units]
              [] currency_units.val = <<>> -> [err |-> "", units |-> units]
              [] reference_currency.err # "" ->
                    [err |-> reference_currency.err, units |-> units]
              [] OTHER -> [err |-> "",
                           units |-> DefineMissing(units, currency_units.val,
                                                   reference_currency.val)]
    IN  Ensured(extract_currency_units(text), get_reference_currency(units))

---------------------------------------------------------------------------
(* Parameter: parameter.py *)

\* a plausible slip: the check of the heating value against the carrier is lost
HeatingValueWithoutCarrier_Never(self) == FALSE

\* elif self.heating_value and not self.carrier
HeatingValueWithoutCarrier(self) ==
    Truthy(self.heating_value) /\ ~Truthy(self.carrier)

\* [err, self, units]: the exception raised, if any, the object and the
\* registry as the call leaves them
update_pint_attributes(units, self) ==
    LET Updated(e, q, c, h) ==
            LET s1 == [self EXCEPT !.pint_quantity = [m |-> self.magnitude, u |-> q.val]]
                s2 == [s1 EXCEPT !.pint_carrier =
                          IF Truthy(self.carrier) THEN Some(c.val) ELSE None]
            IN  CASE e.err # "" -> [err |-> e.err, self |-> self, units |-> e.units]
                  [] q.err # "" -> [err |-> q.err, self |-> self, units |-> e.units]
                  [] c.err # "" -> [err |-> c.err, self |-> s1, units |-> e.units]
                  [] Truthy(self.heating_value) /\ Truthy(self.carrier) ->
                        IF h.err # "" THEN [err |-> h.err, self |-> s2, units |-> e.units]
                        ELSE [err |-> "",
                              self |-> [s2 EXCEPT !.pint_heating_value = Some(h.val)],
                              units |-> e.units]
                  [] HeatingValueWithoutCarrier(self) ->
                        [err |-> "ValueError", self |-> s2, units |-> e.units]
                  [] OTHER -> [err |-> "",
                               self |-> [s2 EXCEPT !.pint_heating_value = None],
                               units |-> e.units]
        Ensured(e) ==
            Updated(e,
                    IF Truthy(self.units)
                    THEN ParseUnit("ureg", e.units, Val(self.units)) ELSE Ok(<<>>),
                    IF Truthy(self.carrier)
                    THEN ParseUnit("creg", e.units, Val(self.carrier)) ELSE Ok(None),
                    IF Truthy(self.heating_value)
                    THEN ParseUnit("hvreg", e.units, Val(self.heating_value))
                    ELSE Ok(None))
    IN  Ensured(IF Truthy(self.units)
                THEN ensure_currency_is_unit(units, Val(self.units))
                ELSE [err |-> "", units |-> units])

\* the pydantic fields with the PrivateAttr defaults
BaseModelInit(data) ==
    [magnitude |-> data.magnitude, units |-> data.units, carrier |-> data.carrier,
     heating_value |-> data.heating_value, provenance |-> data.provenance,
     note |-> data.note, sources |-> data.sources,
     pint_quantity |-> [m |-> data.magnitude, u |-> <<>>],
     pint_carrier |-> None, pint_heating_value |-> None]

\* Parameter(**data): [err, self, units]
ParameterInit(units, data) ==
    LET Updated(r) ==
            IF r.err # "" THEN [err |-> r.err, self |-> None, units |-> r.units]
            ELSE [err |-> "", self |-> Some(r.self), units |-> r.units]
        Canonical(e, u, c, h) ==
            LET canonical ==
                    [data EXCEPT
                        !.units = IF data.units # None THEN Some(StrUnit(u.val)) ELSE None,
                        !.carrier =
                            IF data.carrier # None THEN Some(StrUnit(c.val)) ELSE None,
                        !.heating_value =
                            IF data.heating_value # None THEN Some(StrUnit(h.val))
                            ELSE None]
            IN  CASE e.err # "" -> [err |-> e.err, self |-> None, units |-> e.units]
                  [] u.err # "" -> [err |-> u.err, self |-> None, units |-> e.units]
                  [] c.err # "" -> [err |-> c.err, self |-> None, units |-> e.units]
                  [] h.err # "" -> [err |-> h.err, self |-> None, units |-> e.units]
                  [] OTHER ->
                        Updated(update_pint_attributes(e.units, BaseModelInit(canonical)))
        Ensured(e) ==
            Canonical(e,
                      IF data.units # None
                      THEN ParseUnit("ureg", e.units, Val(data.units)) ELSE Ok(<<>>),
                      IF data.carrier # None
                      THEN ParseUnit("creg", e.units, Val(data.carrier)) ELSE Ok(<<>>),
                      IF data.heating_value # None
                      THEN ParseUnit("hvreg", e.units, Val(data.heating_value))
                      ELSE Ok(<<>>))
    IN  Ensured(IF data.units # None
                THEN ensure_currency_is_unit(units, Val(data.units))
                ELSE [err |-> "", units |-> units])

---------------------------------------------------------------------------
(* pint quantities: conversion, arithmetic, comparison *)

\* [currency] and [power] exponents of a unit
Dimensionality(u) ==
    LET RECURSIVE Sum(_, _)
        Sum(v, cur) ==
            IF v = <<>> THEN 0
            ELSE (IF CURRENCY_UNIT_PATTERN(Head(v).t) = cur THEN Head(v).e ELSE 0)
                 + Sum(Tail(v), cur)
    IN  [currency |-> Sum(u, TRUE), power |-> Sum(u, FALSE)]

\* the factor of one unit to its root unit (power: in kilowatt); a currency
\* unit takes the definition of the active context, if it has one
RootFactor(units, context, tok) ==
    CASE tok \in DOMAIN context -> context[tok]
      [] CURRENCY_UNIT_PATTERN(tok) -> units[tok].f
      [] tok.n = "megawatt" -> Int2Rat(1000)
      [] OTHER -> Int2Rat(1)

RECURSIVE RootFactors(_, _, _)
RootFactors(units, context, u) ==
    IF u = <<>> THEN Int2Rat(1)
    ELSE RMul(RPow(RootFactor(units, context, Head(u).t), Head(u).e),
              RootFactors(units, context, Tail(u)))

\* a plausible slip: the value is scaled by the factor of the source alone,
\* whatever the destination
Convert_SourceFactor(units, context, value, src, dst) ==
    IF Dimensionality(src) # Dimensionality(dst) THEN Raise("DimensionalityError")
    ELSE Ok(RMul(value, RootFactors(units, context, src)))

\* registry.convert(value, src, dst) with the context enabled
Convert(units, context, value, src, dst) ==
    IF src = dst THEN Ok(value)
    ELSE IF Dimensionality(src) # Dimensionality(dst) THEN Raise("DimensionalityError")
    ELSE Ok(RMul(value, RootFactors(units, context, UnitDiv("ureg", src, dst))))

NoContext == [t \in {} |-> NaN]

\* Quantity.to(text, context)
QuantityTo(units, context, q, text) ==
    LET Converted(dst, m) ==
            CASE dst.err # "" -> Raise(dst.err)
              [] m.err # "" -> Raise(m.err)
              [] OTHER -> Ok([m |-> m.val, u |-> dst.val])
        Parsed(dst) ==
            Converted(dst, IF dst.err # "" THEN dst
                           ELSE Convert(units, context, q.m, q.u, dst.val))
    IN  Parsed(ParseUnit("ureg", units, text))

\* q1 + q2 (sign = 1) and q1 - q2 (sign = -1): in the units of q1
QuantityAddSub(units, q1, q2, sign) ==
    LET Converted(m2) ==
            IF m2.err # "" THEN Raise(m2.err)
            ELSE Ok([m |-> IF sign = 1 THEN RAdd(q1.m, m2.val) ELSE RSub(q1.m, m2.val),
                     u |-> q1.u])
    IN  Converted(Convert(units, NoContext, q2.m, q2.u, q1.u))

QuantityMul(q1, q2) == [m |-> RMul(q1.m, q2.m), u |-> UnitMul("ureg", q1.u, q2.u)]
QuantityDiv(q1, q2) == [m |-> RDiv(q1.m, q2.m), u |-> UnitDiv("ureg", q1.u, q2.u)]

ZeroOrNan(m) == IsNaN(m) \/ m.n = 0

\* Quantity.__eq__
QuantityEq(units, q1, q2) ==
    LET Converted(m) == m.err = "" /\ FloatEq(m.val, q2.m)
    IN  IF ZeroOrNan(q1.m) /\ ZeroOrNan(q2.m)
        THEN Dimensionality(q1.u) = Dimensionality(q2.u)
        ELSE IF q1.u = q2.u THEN FloatEq(q1.m, q2.m)
        ELSE Converted(Convert(units, NoContext, q1.m, q1.u, q2.u))

---------------------------------------------------------------------------
(* The deflation service behind get_conversion_rate *)

\* SPECIAL_CASES_CURRENCY_CODE_TO_ISO3 over the authoritative table
get_iso3_from_currency_code(currency_code) ==
    CASE currency_code = "USD" -> Ok("USA")
      [] currency_code = "EUR" -> Ok("EUR")
      [] OTHER -> Raise("ValueError")

Countries == {"USA", "DEU"}

\* pydeflate: the value of 1 unit of (from_iso3, from_year) in (to_iso3, to_year),
\* deflated with the series of the country
Deflate(fn, from_iso3, from_year, to_iso3, to_year, country) ==
    CASE country \notin Countries -> Raise("ValueError")
      [] from_iso3 = to_iso3 /\ from_year = to_year -> Ok(Int2Rat(1))
      [] fn = "wb_gdp_deflate" /\ country = "USA" -> Ok(Rat(12501, 25000))
      [] fn = "wb_gdp_deflate" -> Ok(Rat(5, 4))
      [] country = "USA" -> Ok(Rat(3, 2))
      [] OTHER -> Ok(Rat(1, 2))

\* {"worldbank": pydeflate.wb_gdp_deflate,
\*  "international_monetary_fund": pydeflate.imf_gdp_deflate}[source]
deflation_function(source) ==
    CASE source = "worldbank" -> Ok("wb_gdp_deflate")
      [] source = "international_monetary_fund" -> Ok("imf_gdp_deflate")
      [] OTHER -> Raise("KeyError")

\* the body of get_conversion_rate, without its decorator
get_conversion_rate(from_iso3, to_iso3, country, from_year, to_year, source) ==
    LET Chosen(fn) ==
            IF fn.err # "" THEN fn
            ELSE Deflate(fn.val, from_iso3, from_year, to_iso3, to_year, country)
    IN  Chosen(deflation_function(source))

\* the arguments of one call of get_conversion_rate: the key of its lru_cache
Key(from_iso3, to_iso3, country, from_year, to_year, source) ==
    [from_iso3 |-> from_iso3, to_iso3 |-> to_iso3, country |-> country,
     from_year |-> from_year, to_year |-> to_year, source |-> source]

\* functools.lru_cache without arguments: maxsize=128
lru_cache_maxsize == 128

\* pydeflate is called with the key once more
Deflated(served, key) ==
    [once |-> served.once \cup {key},
     again |-> IF key \in served.once THEN served.again \cup {key} ELSE served.again]

\* the cache without its entry i, and with one more entry at the recent end;
\* a full cache drops its least recently used entry first
Without(cached, i) == [k \in 1..(Len(cached) - 1) |-> cached[IF k < i THEN k ELSE k + 1]]
Store(cached, entry) ==
    IF Len(cached) >= lru_cache_maxsize THEN Append(Tail(cached), entry)
    ELSE Append(cached, entry)

\* @lru_cache def get_conversion_rate: [err, val, memo, deflated], the
\* exception or the rate, the cache and the calls of pydeflate afterwards.
\* A call that raises stores nothing.
lru_cache(cached, served, key) ==
    LET hits == {i \in 1..Len(cached) : cached[i].key = key}
        Hit(i) ==
            [err |-> "", val |-> cached[i].val,
             memo |-> Append(Without(cached, i), cached[i]), deflated |-> served]
        Miss(fn, r) ==
            [err |-> r.err, val |-> r.val,
             memo |-> IF r.err = "" THEN Store(cached, [key |-> key, val |-> r.val])
                      ELSE cached,
             deflated |-> IF fn.err = "" THEN Deflated(served, key) ELSE served]
    IN  IF hits # {} THEN Hit(CHOOSE i \in hits : TRUE)
        ELSE Miss(deflation_function(key.source),
                  get_conversion_rate(key.from_iso3, key.to_iso3, key.country,
                                      key.from_year, key.to_year, key.source))

RECURSIVE Requested(_, _, _)
\* the calls of get_conversion_rate with the keys in their order, up to the
\* first one that raises: [memo, deflated]
Requested(cached, served, keys) ==
    LET Got(r) ==
            IF r.err # "" THEN [memo |-> r.memo, deflated |-> r.deflated]
            ELSE Requested(r.memo, r.deflated, Tail(keys))
    IN  IF Len(keys) = 0 THEN [memo |-> cached, deflated |-> served]
        ELSE Got(lru_cache(cached, served, Head(keys)))

\* the orders in which a loop may run over a set
Orderings(S) ==
    {order \in [1..Cardinality(S) -> S] :
        \A a, b \in 1..Cardinality(S) : a # b => order[a] # order[b]}

\* f"{conversion_rate:.4f}"
Format4f(r) == Rat((2 * r.n * 10000 + r.d) \div (2 * r.d), 10000)

---------------------------------------------------------------------------
(* Parameter methods.  Each yields [err, res, self, units]: the exception   *)
(* raised, if any, the Parameter returned, and the receiver and the        *)
(* registry as the call leaves them.                                       *)

\* keys: the argument tuples the call asks get_conversion_rate for
Outcome(err, res, self, units) ==
    [err |-> err, res |-> res, self |-> self, units |-> units, keys |-> {}]

Data(magnitude, units, carrier, heating_value, provenance, note, sources) ==
    [magnitude |-> magnitude, units |-> units, carrier |-> carrier,
     heating_value |-> heating_value, provenance |-> provenance, note |-> note,
     sources |-> sources]

\* SourceCollection(sources=[]), the default of the field
NoSources == <<>>

\* return Parameter(...) at the end of a method
Return(units, self, data) ==
    LET Constructed(r) == Outcome(r.err, r.self, self, r.units)
    IN  Constructed(ParameterInit(units, data))

\* @refresh_pint_attributes def to(self, units)
to(units, self, text) ==
    LET Checked(r, a, b, q) ==
            LET s0 == r.self
                s1 == [s0 EXCEPT !.pint_quantity = q.val]
            IN  CASE r.err # "" -> Outcome(r.err, None, s0, r.units)
                  [] a.err # "" -> Outcome(a.err, None, s0, r.units)
                  [] b.err # "" -> Outcome(b.err, None, s0, r.units)
                  [] a.val # b.val -> Outcome("NotImplementedError", None, s0, r.units)
                  [] q.err # "" -> Outcome(q.err, None, s0, r.units)
                  [] OTHER ->
                        Return(r.units, s1,
                               Data(s1.pint_quantity.m, Some(StrUnit(s1.pint_quantity.u)),
                                    self.carrier, self.heating_value, self.provenance,
                                    self.note, self.sources))
        Refreshed(r) ==
            Checked(r,
                    extract_currency_units(StrUnit(r.self.pint_quantity.u)),
                    extract_currency_units(text),
                    QuantityTo(r.units, NoContext, r.self.pint_quantity, text))
    IN  Refreshed(update_pint_attributes(units, self))

\* a plausible slip: sub(..., count=1), only the first match is replaced
Sub_FirstOnly(to_currency, text) ==
    [i \in 1..Len(text) |->
        IF /\ CURRENCY_UNIT_PATTERN(text[i].t)
           /\ \A j \in 1..(i - 1) : ~CURRENCY_UNIT_PATTERN(text[j].t)
        THEN [t |-> to_currency, e |-> text[i].e] ELSE text[i]]

\* CURRENCY_UNIT_PATTERN.sub(to_currency, text)
Sub(to_currency, text) ==
    [i \in 1..Len(text) |->
        IF CURRENCY_UNIT_PATTERN(text[i].t)
        THEN [t |-> to_currency, e |-> text[i].e] ELSE text[i]]

\* a plausible slip: ureg.redefine(...), the rates are written into the registry
Redefine_InRegistry(units, context) ==
    [t \in DOMAIN units |->
        IF t \in DOMAIN context THEN [f |-> context[t], of |-> units[t].of]
        ELSE units[t]]

\* context.redefine(...): the rates go to the context of the call, the
\* registry is left with the definitions it has
Redefine(units, context) == units

\* the argument tuples of the loop over currencies
RateKeys(currencies, ref_currency, ref_iso3, country, source) ==
    {Key(get_iso3_from_currency_code(c.n).val, ref_iso3, country, c.y,
         ref_currency.y, source) :
        c \in {x \in currencies : get_iso3_from_currency_code(x.n).err = ""}}

\* the rates of the loop over currencies: [err, context].  A rate that the
\* cache holds is the rate pydeflate gave for the same arguments.
Rates(currencies, ref_currency, ref_iso3, country, source) ==
    LET Rate(c, from_iso3) ==
            IF from_iso3.err # "" THEN from_iso3
            ELSE get_conversion_rate(from_iso3.val, ref_iso3, country, c.y,
                                     ref_currency.y, source)
        rate(c) == Rate(c, get_iso3_from_currency_code(c.n))
        Redefined(failed) ==
            IF failed # {}
            THEN [err |-> rate(CHOOSE c \in failed : TRUE).err, context |-> NoContext]
            ELSE [err |-> "",
                  context |-> [c \in currencies |->
                                  RDiv(Int2Rat(1), Format4f(rate(c).val))]]
    IN  Redefined({c \in currencies : rate(c).err # ""})

\* @refresh_pint_attributes def change_currency(self, to_currency, country, source)
\* The conversion applies the rates of the context, as test_parameter_change_currency
\* expects (a magnitude that is not NaN and differs from the receiver's).
change_currency(units, self, to_currency, country, source) ==
    LET Converted(s0, e, quantity) ==
            IF quantity.err # "" THEN Outcome(quantity.err, None, s0, e.units)
            ELSE Return(e.units, s0,
                        Data(quantity.val.m, Some(StrUnit(quantity.val.u)),
                             self.carrier, self.heating_value, self.provenance,
                             self.note, self.sources))
        Rated(s0, e, to_units, rates) ==
            IF rates.err # "" THEN Outcome(rates.err, None, s0, e.units)
            ELSE Converted(s0, [e EXCEPT !.units = Redefine(e.units, rates.context)],
                           QuantityTo(e.units, rates.context, s0.pint_quantity,
                                      to_units))
        Ensured(r, e) ==
            LET s0 == r.self
                from_units == s0.pint_quantity.u
                from_currencies == extract_currency_units(StrUnit(from_units))
                to_units == Sub(to_currency, StrUnit(from_units))
                ref_currency == get_reference_currency(e.units)
                ref_iso3 == get_iso3_from_currency_code(ref_currency.val.n)
                currencies ==
                    ({from_currencies.val[i] : i \in 1..Len(from_currencies.val)}
                        \cup {to_currency}) \ {ref_currency.val}
            IN  CASE r.err # "" -> Outcome(r.err, None, s0, r.units)
                  [] e.err # "" -> Outcome(e.err, None, s0, e.units)
                  [] from_currencies.err # "" ->
                        Outcome(from_currencies.err, None, s0, e.units)
                  [] ref_currency.err # "" -> Outcome(ref_currency.err, None, s0, e.units)
                  [] ref_iso3.err # "" -> Outcome(ref_iso3.err, None, s0, e.units)
                  [] OTHER ->
                        [Rated(s0, e, to_units,
                               Rates(currencies, ref_currency.val, ref_iso3.val, country,
                                     source))
                            EXCEPT !.keys = RateKeys(currencies, ref_currency.val,
                                                     ref_iso3.val, country, source)]
        Refreshed(r) ==
            Ensured(r, ensure_currency_is_unit(r.units, <<[t |-> to_currency, e |-> 1]>>))
    IN  Refreshed(update_pint_attributes(units, self))

\* a plausible slip: only the carriers are compared
check_parameter_compatibility_CarrierOnly(self, other) ==
    IF self.pint_carrier # other.pint_carrier THEN "ValueError" ELSE ""

\* _check_parameter_compatibility: the exception raised, if any
check_parameter_compatibility(self, other) ==
    IF self.pint_carrier # other.pint_carrier THEN "ValueError"
    ELSE IF self.pint_heating_value # other.pint_heating_value THEN "ValueError"
    ELSE ""

\* __add__ (sign = 1) and __sub__ (sign = -1)
AddSub(units, self, other, sign) ==
    LET c == check_parameter_compatibility(self, other)
        Added(new_quantity) ==
            CASE c # "" -> Outcome(c, None, self, units)
              [] new_quantity.err # "" -> Outcome(new_quantity.err, None, self, units)
              [] OTHER ->
                    Return(units, self,
                           Data(new_quantity.val.m, Some(StrUnit(new_quantity.val.u)),
                                self.carrier, self.heating_value, None, None, NoSources))
    IN  Added(QuantityAddSub(units, self.pint_quantity, other.pint_quantity, sign))

add(units, self, other) == AddSub(units, self, other, 1)
sub(units, self, other) == AddSub(units, self, other, -1)

\* str(None)
StrNone == <<[t |-> Tok("None"), e |-> 1]>>

\* __mul__ (op = "*") and __truediv__ (op = "/")
MulDiv(units, self, other, op) ==
    LET Combined(new_quantity, new_carrier, new_heating_value) ==
            CASE self.pint_heating_value # other.pint_heating_value ->
                    Outcome("ValueError", None, self, units)
              \* None * None, None / None
              [] self.pint_heating_value = None -> Outcome("TypeError", None, self, units)
              [] OTHER ->
                    Return(units, self,
                           Data(new_quantity.m, Some(StrUnit(new_quantity.u)),
                                IF new_carrier = None THEN Some(StrNone)
                                ELSE Some(StrUnit(Val(new_carrier))),
                                Some(StrUnit(new_heating_value)), None, None, NoSources))
    IN  Combined(
            IF op = "*" THEN QuantityMul(self.pint_quantity, other.pint_quantity)
            ELSE QuantityDiv(self.pint_quantity, other.pint_quantity),
            IF Truthy(self.pint_carrier) /\ Truthy(other.pint_carrier)
            THEN Some(IF op = "*"
                      THEN UnitMul("creg", Val(self.pint_carrier), Val(other.pint_carrier))
                      ELSE UnitDiv("creg", Val(self.pint_carrier), Val(other.pint_carrier)))
            ELSE None,
            IF self.pint_heating_value = None \/ other.pint_heating_value = None
            THEN None
            ELSE IF op = "*"
            THEN UnitMul("hvreg", Val(self.pint_heating_value),
                         Val(other.pint_heating_value))
            ELSE UnitDiv("hvreg", Val(self.pint_heating_value),
                         Val(other.pint_heating_value)))

mul(units, self, other) == MulDiv(units, self, other, "*")
truediv(units, self, other) == MulDiv(units, self, other, "/")

\* BaseModel.__eq__: the fields and the private attributes
eq(units, self, other) ==
    /\ FloatEq(self.magnitude, other.magnitude)
    /\ self.units = other.units
    /\ self.carrier = other.carrier
    /\ self.heating_value = other.heating_value
    /\ self.provenance = other.provenance
    /\ self.note = other.note
    /\ self.sources = other.sources
    /\ QuantityEq(units, self.pint_quantity, other.pint_quantity)
    /\ self.pint_carrier = other.pint_carrier
    /\ self.pint_heating_value = other.pint_heating_value

---------------------------------------------------------------------------
(* The calls and their inputs *)

Slots == {"p", "q"}

MaxDepth == 1

F(tok) == [t |-> tok, e |-> 1]
Per(tok) == [t |-> tok, e |-> -1]

USD_kW == <<F(USD_2020), Per(Tok("kW"))>>                   \* "USD_2020/kW"
USD_MW == <<F(USD_2020), Per(Tok("MW"))>>                   \* "USD_2020/MW"
EUR_kW == <<F(EUR_2023), Per(Tok("kW"))>>                   \* "EUR_2023/kW"
USD_EUR_kW == <<F(USD_2020), F(EUR_2023), Per(Tok("kW"))>>  \* "USD_2020 * EUR_2023 / kW"
USD_EUR_MW == <<F(USD_2020), F(EUR_2023), Per(Tok("MW"))>>  \* "USD_2020 * EUR_2023 / MW"
EUR_USD_MW == <<F(EUR_2023), F(USD_2020), Per(Tok("MW"))>>  \* "EUR_2023 * USD_2020 / MW"
XYZ_kW == <<F(XYZ_2020), Per(Tok("kW"))>>                   \* "XYZ_2020/kW"
EUR15_kW == <<F(EUR_2015), Per(Tok("kW"))>>                 \* "EUR_2015/kW"
EUR15_EUR15 == <<F(EUR_2015), Per(EUR_2015)>>               \* "EUR_2015/EUR_2015"
EUR_XYZ == <<F(EUR_2023), Per(XYZ_2020)>>                   \* "EUR_2023/XYZ_2020"
Per_kW == <<Per(Tok("kW"))>>                                \* "1/kW"

H2 == <<F(Tok("H2"))>>
CH4 == <<F(Tok("CH4"))>>
LHV == <<F(Tok("LHV"))>>
HHV == <<F(Tok("HHV"))>>

Optional(S) == {None} \cup {Some(x) : x \in S}

\* the elements of a list, whatever their order and number
Elements(list) == {list[i] : i \in 1..Len(list)}

\* provenance, note, sources
NoMetadata == <<None, None, NoSources>>
SomeMetadata == <<Some("literature"), Some("Estimated"), <<"Example Title">> >>

\* the keyword arguments of Parameter(...)
Inputs(magnitudes, units, carriers, heating_values, metadata) ==
    {Data(m, u, c, h, meta[1], meta[2], meta[3]) :
        m \in magnitudes, u \in units, c \in carriers, h \in heating_values,
        meta \in metadata}

NoArgs == [data |-> None, text |-> None, to_currency |-> None, country |-> "", source |-> ""]

Call(op, self, other, args, err, res, equal) ==
    [op |-> op, self |-> self, other |-> other, args |-> args, err |-> err,
     res |-> res, equal |-> equal]

NoCall == Call("", "", "", NoArgs, "", None, FALSE)

Methods == {"to", "change_currency", "add", "sub", "mul", "truediv"}

---------------------------------------------------------------------------
(* The state machine *)

\* no call of pydeflate yet
NeverDeflated == [once |-> {}, again |-> {}]

\* LinearGrowth(m=..., c=..., data_points=[...])
LinearGrowth(m, c, data_points) == [m |-> m, c |-> c, data_points |-> data_points]

Default == ParameterInit(SpecialUnitRegistry,
                         Data(Int2Rat(1), None, None, None, None, None, NoSources))

\* the threads that call ureg.ensure_currency_is_unit
Threads == {"t1", "t2"}

\* no thread has called yet
NoThreads == [t \in Threads |-> [pc |-> "idle", currency_units |-> <<>>,
                                 reference_currency |-> None]]

\* p = Parameter(magnitude=1); q = Parameter(magnitude=1)
Init ==
    /\ ureg = Default.units
    /\ params = [i \in Slots |-> Val(Default.self)]
    /\ depth = [i \in Slots |-> 0]
    /\ last = NoCall
    /\ memo = <<>>
    /\ deflated = NeverDeflated
    /\ cache = Some(JsonDump(countriesdata))
    /\ feed = countriesdata
    /\ model = LinearGrowth(None, None, <<>>)
    /\ extracted = {}
    /\ threads = NoThreads
    /\ defines = <<>>

\* i = Parameter(**data)
Construct(i, inputs) ==
    \E data \in inputs :
        \E r \in {ParameterInit(ureg, data)} :
            /\ params' = IF r.err = "" THEN [params EXCEPT ![i] = Val(r.self)] ELSE params
            /\ depth' = IF r.err = "" THEN [depth EXCEPT ![i] = 0] ELSE depth
            /\ ureg' = r.units
            /\ last' = Call("Parameter", i, "", [NoArgs EXCEPT !.data = Some(data)],
                            r.err, r.self, FALSE)
            /\ UNCHANGED <<extract_vars, thread_vars, rate_vars, cache_vars, growth_vars>>

\* i.magnitude = m
AssignMagnitude(i, magnitudes) ==
    \E m \in magnitudes :
        /\ params' = [params EXCEPT ![i].magnitude = m]
        /\ last' = NoCall
        /\ UNCHANGED <<extract_vars, thread_vars, depth, ureg, rate_vars, cache_vars, growth_vars>>

\* i.units = "..."
AssignUnits(i, texts) ==
    \E text \in texts :
        /\ params' = [params EXCEPT ![i].units = Some(text)]
        /\ last' = NoCall
        /\ UNCHANGED <<extract_vars, thread_vars, depth, ureg, rate_vars, cache_vars, growth_vars>>

\* i._update_pint_attributes()
UpdatePintAttributes(i) ==
    \E r \in {update_pint_attributes(ureg, params[i])} :
        /\ params' = [params EXCEPT ![i] = r.self]
        /\ ureg' = r.units
        /\ last' = Call("_update_pint_attributes", i, "", NoArgs, r.err, None, FALSE)
        /\ UNCHANGED <<extract_vars, thread_vars, depth, rate_vars, cache_vars, growth_vars>>

\* a method call on a Parameter; the loop of change_currency runs over a set
Called(op, i, j, args, r) ==
    /\ params' = [params EXCEPT ![i] = r.self]
    /\ ureg' = r.units
    /\ last' = Call(op, i, j, args, r.err, r.res, FALSE)
    /\ \E order \in Orderings(r.keys) :
           \E rates \in {Requested(memo, deflated, order)} :
               /\ memo' = rates.memo
               /\ deflated' = rates.deflated
    /\ UNCHANGED <<extract_vars, thread_vars, depth, cache_vars, growth_vars>>

\* i.to(text)
To(i, texts) ==
    \E text \in texts :
        Called("to", i, "", [NoArgs EXCEPT !.text = Some(text)],
               to(ureg, params[i], text))

\* i.change_currency(to_currency, country, source)
ChangeCurrency(i, currencies, countries, sources) ==
    \E to_currency \in currencies, country \in countries, source \in sources :
        Called("change_currency", i, "",
               [NoArgs EXCEPT !.to_currency = Some(to_currency), !.country = country,
                              !.source = source],
               change_currency(ureg, params[i], to_currency, country, source))

\* ureg.ensure_currency_is_unit(text)
EnsureCurrencyIsUnit(texts) ==
    \E text \in texts :
        \E r \in {ensure_currency_is_unit(ureg, text)} :
            /\ ureg' = r.units
            /\ last' = Call("ensure_currency_is_unit", "", "",
                            [NoArgs EXCEPT !.text = Some(text)], r.err, None, FALSE)
            /\ UNCHANGED <<extract_vars, thread_vars, params, depth, rate_vars, cache_vars,
                           growth_vars>>

\* get_conversion_rate(from_iso3, to_iso3, country, from_year, to_year, source)
GetConversionRate(keys) ==
    \E key \in keys :
        \E r \in {lru_cache(memo, deflated, key)} :
            /\ memo' = r.memo
            /\ deflated' = r.deflated
            /\ last' = Call("get_conversion_rate", "", "", [key |-> key], r.err,
                            IF r.err = "" THEN Some(r.val) ELSE None, FALSE)
            /\ UNCHANGED <<extract_vars, thread_vars, param_vars, cache_vars, growth_vars>>

\* get_iso3_to_currency_codes(refresh=..., ignore_cache=...)
GetIso3ToCurrencyCodes ==
    \E refresh, ignore_cache \in BOOLEAN :
        \E r \in {get_iso3_to_currency_codes(cache, feed, refresh, ignore_cache)} :
            /\ cache' = r.cache
            /\ last' = Call("get_iso3_to_currency_codes", "", "",
                            [refresh |-> refresh, ignore_cache |-> ignore_cache,
                             found |-> cache],
                            "", Some(r.val), FALSE)
            /\ UNCHANGED <<extract_vars, thread_vars, param_vars, rate_vars, feed, growth_vars>>

\* with open(CURRENCY_CODES_CACHE, "w") as f: json.dump(dummy_data, f)
WriteCache(dummies) ==
    \E dummy_data \in dummies :
        /\ cache' = Some(JsonDump(dummy_data))
        /\ last' = Call("json.dump", "", "", [found |-> cache], "", None, FALSE)
        /\ UNCHANGED <<extract_vars, thread_vars, param_vars, rate_vars, feed, growth_vars>>

\* CURRENCY_CODES_CACHE.unlink(missing_ok=True)
Unlink ==
    /\ cache' = None
    /\ last' = Call("unlink", "", "", [found |-> cache], "", None, FALSE)
    /\ UNCHANGED <<extract_vars, thread_vars, param_vars, rate_vars, feed, growth_vars>>

\* extract_currency_units(text), text being the argument drawn at the start
ExtractCurrencyUnits ==
    /\ last.op = ""
    /\ \E r \in {extract_currency_units(Val(last.args.text))} :
           last' = Call("extract_currency_units", "", "", last.args, r.err,
                        Some(r.val), FALSE)
    /\ UNCHANGED <<extract_vars, thread_vars, param_vars, rate_vars, cache_vars, growth_vars>>

\* extract_currency_units(text) in a process that has called it before
ExtractCurrencyUnitsAgain(texts) ==
    \E text \in texts :
        \E r \in {lru_extract_currency_units(extracted, cache, feed, text)} :
            /\ extracted' = r.extracted
            /\ cache' = r.cache
            /\ last' = Call("extract_currency_units", "", "",
                            [text |-> text, found |-> cache], r.err, Some(r.val), FALSE)
            /\ UNCHANGED <<thread_vars, param_vars, rate_vars, feed, growth_vars>>

\* thread t calls ureg.ensure_currency_is_unit(text) and comes to the loop
\* with currency_units and reference_currency, or returns or raises before
Enter(t, texts) ==
    /\ threads[t].pc = "idle"
    /\ \E text \in texts :
        LET Entered(currency_units, reference_currency) ==
                CASE currency_units.err # "" -> [threads[t] EXCEPT !.pc = "raised"]
                  [] currency_units.val = <<>> -> [threads[t] EXCEPT !.pc = "returned"]
                  [] reference_currency.err # "" -> [threads[t] EXCEPT !.pc = "raised"]
                  [] OTHER -> [pc |-> "for", currency_units |-> currency_units.val,
                               reference_currency |-> Some(reference_currency.val)]
        IN  threads' = [threads EXCEPT ![t] = Entered(extract_currency_units(text),
                                                      get_reference_currency(ureg))]
    /\ UNCHANGED <<extract_vars, defines, param_vars, last, rate_vars, cache_vars,
                   growth_vars>>

\* for currency_unit in currency_units: if currency_unit in self._units:
\* continue
Test(t) ==
    /\ threads[t].pc = "for"
    /\ LET currency_units == threads[t].currency_units
       IN  threads' = [threads EXCEPT ![t] =
               IF currency_units = <<>> THEN [@ EXCEPT !.pc = "returned"]
               ELSE IF Head(currency_units) \in DOMAIN ureg
               THEN [@ EXCEPT !.currency_units = Tail(currency_units)]
               ELSE [@ EXCEPT !.pc = "define"]]
    /\ UNCHANGED <<extract_vars, defines, param_vars, last, rate_vars, cache_vars,
                   growth_vars>>

\* self.define(f"{currency_unit} = nan {reference_currency}"): the unit is
\* defined, anew if another thread defined it since the test
Define(t) ==
    /\ threads[t].pc = "define"
    /\ LET currency_unit == Head(threads[t].currency_units)
       IN  /\ ureg' = [token \in DOMAIN ureg \cup {currency_unit} |->
                          IF token = currency_unit
                          THEN NanUnit(Val(threads[t].reference_currency))
                          ELSE ureg[token]]
           /\ defines' = Append(defines, [thread |-> t, unit |-> currency_unit,
                                          redefined |-> currency_unit \in DOMAIN ureg])
    /\ threads' = [threads EXCEPT ![t] = [@ EXCEPT !.pc = "for",
                                                   !.currency_units = Tail(@)]]
    /\ UNCHANGED <<extract_vars, params, depth, last, rate_vars, cache_vars, growth_vars>>

\* the call of thread t is over
Leave(t) ==
    /\ threads[t].pc \in {"returned", "raised"}
    /\ threads' = [threads EXCEPT ![t] = NoThreads[t]]
    /\ UNCHANGED <<extract_vars, defines, param_vars, last, rate_vars, cache_vars,
                   growth_vars>>

\* i + j, i - j, i * j, i / j
Add(i, j) == Called("add", i, j, NoArgs, add(ureg, params[i], params[j]))
Subtract(i, j) == Called("sub", i, j, NoArgs, sub(ureg, params[i], params[j]))
Mul(i, j) == Called("mul", i, j, NoArgs, mul(ureg, params[i], params[j]))
TrueDiv(i, j) == Called("truediv", i, j, NoArgs, truediv(ureg, params[i], params[j]))

\* i == j
Eq(i, j) ==
    /\ last' = Call("eq", i, j, NoArgs, "", None,
                    i = j \/ eq(ureg, params[i], params[j]))
    /\ UNCHANGED <<extract_vars, thread_vars, param_vars, rate_vars, cache_vars, growth_vars>>

Max(a, b) == IF a >= b THEN a ELSE b

\* i = <the Parameter the last method call returned>
Rebind(i) ==
    /\ last.op \in Methods
    /\ Truthy(last.res)
    /\ LET d == 1 + Max(depth[last.self],
                        IF last.other = "" THEN 0 ELSE depth[last.other])
       IN  /\ d <= MaxDepth
           /\ depth' = [depth EXCEPT ![i] = d]
    /\ params' = [params EXCEPT ![i] = Val(last.res)]
    /\ last' = NoCall
    /\ UNCHANGED <<extract_vars, thread_vars, ureg, rate_vars, cache_vars, growth_vars>>

---------------------------------------------------------------------------
(* Construction: every combination of units, carrier and heating value *)

ConstructInputs ==
    Inputs({Int2Rat(1)}, Optional({USD_kW, USD_EUR_kW, XYZ_kW}),
           Optional({H2, CH4}), Optional({LHV, HHV}), {NoMetadata, SomeMetadata})

NextConstruct == Construct("p", ConstructInputs)

SpecConstruct == Init /\ [][NextConstruct]_vars

---------------------------------------------------------------------------
(* Arithmetic of two Parameters with and without carrier and heating value *)

CompatInputs ==
    Inputs({Int2Rat(2)}, {Some(USD_kW)}, Optional({H2, CH4}),
           Optional({LHV, HHV}), {NoMetadata})

NextCompat ==
    \/ \E i \in Slots : Construct(i, CompatInputs)
    \/ \E i, j \in Slots : Add(i, j)
    \/ \E i, j \in Slots : Subtract(i, j)
    \/ \E i, j \in Slots : Mul(i, j)
    \/ \E i, j \in Slots : TrueDiv(i, j)

SpecCompat == Init /\ [][NextCompat]_vars

---------------------------------------------------------------------------
(* Direct assignment to magnitude and units, then the methods *)

StaleInputs ==
    Inputs({Int2Rat(1), Int2Rat(2)}, {Some(USD_kW)}, {None}, {None}, {NoMetadata})

NextStale ==
    \/ \E i \in Slots : Construct(i, StaleInputs)
    \/ AssignMagnitude("p", {Int2Rat(1), Int2Rat(2)})
    \/ AssignUnits("p", {USD_MW})
    \/ UpdatePintAttributes("p")
    \/ To("p", {USD_kW, USD_MW})
    \/ ChangeCurrency("p", {USD_2020, EUR_2023}, {"USA"}, {"worldbank"})
    \/ \E i, j \in Slots : Add(i, j)
    \/ \E i, j \in Slots : Subtract(i, j)
    \/ \E i, j \in Slots : Mul(i, j)
    \/ \E i, j \in Slots : TrueDiv(i, j)
    \/ \E i, j \in Slots : Eq(i, j)

SpecStale == Init /\ [][NextStale]_vars

---------------------------------------------------------------------------
(* Unit and currency conversion of one Parameter, results chained *)

CurrencyInputs ==
    {Data(Int2Rat(1), u, m[1], m[2], m[3], m[4], m[5]) :
        u \in {None, Some(USD_kW), Some(USD_EUR_kW), Some(XYZ_kW)},
        m \in {<<None, None, None, None, NoSources>>,
               <<Some(H2), Some(LHV), Some("literature"), Some("Estimated"),
                 <<"Example Title">> >>}}

NextCurrency ==
    \/ Construct("p", CurrencyInputs)
    \/ To("p", {USD_MW, EUR_kW, USD_EUR_MW, EUR_USD_MW})
    \/ ChangeCurrency("p", {USD_2020, EUR_2023, XYZ_2020}, {"USA", "DEU", "USB"},
                      {"worldbank", "invalid_source"})
    \/ Rebind("p")

SpecCurrency == Init /\ [][NextCurrency]_vars

---------------------------------------------------------------------------
(* The registry of currency units under constructions, conversions and     *)
(* direct calls of ensure_currency_is_unit; every deflation source         *)

RegistryInputs ==
    Inputs({Int2Rat(1)}, Optional({USD_kW, EUR_kW, EUR15_kW, EUR_XYZ}),
           Optional({H2, Per_kW}), {None}, {NoMetadata})

NextRegistry ==
    \/ Construct("p", RegistryInputs)
    \/ EnsureCurrencyIsUnit({<<>>, Per_kW, USD_kW, EUR_kW, USD_EUR_kW, EUR15_EUR15,
                             XYZ_kW, EUR_XYZ})
    \/ To("p", {USD_MW, EUR_kW})
    \/ ChangeCurrency("p", {USD_2020, EUR_2023, XYZ_2020}, {"USA"},
                      {"worldbank", "imf", "international_monetary_fund"})

SpecRegistry == Init /\ [][NextRegistry]_vars

---------------------------------------------------------------------------
(* Conversion rates asked for year after year, the first year asked for    *)
(* again at any time                                                       *)

\* get_conversion_rate("USA", "DEU", "USA", from_year, 2019)
RateKey(from_year) == Key("USA", "DEU", "USA", from_year, 2019, "worldbank")

LastYear == 2018
Years == (LastYear - lru_cache_maxsize)..LastYear

\* the first year, and the first year that was not asked for yet
RateYears == {LastYear, LastYear - Cardinality(deflated.once)} \cap Years

NextRates == GetConversionRate({RateKey(from_year) : from_year \in RateYears})

SpecRates == Init /\ [][NextRates]_vars

---------------------------------------------------------------------------
(* The cache file of the currency codes: read, bypassed, refreshed,        *)
(* overwritten and deleted                                                 *)

\* the live feed now, and as an earlier run of the program found it
Feeds == {countriesdata, [USA |-> "USD", DEU |-> "DEM"]}

\* dummy_data = {"FOO": "BAR"}, and other files
Dummies ==
    {[FOO |-> "BAR"], [USA |-> "USD"], [FOO |-> "BAR", USA |-> "USD"],
     [DEU |-> "EUR", FRA |-> "EUR"]}

\* the file is absent, or an earlier run left it
InitCache ==
    /\ ureg = Default.units
    /\ params = [i \in Slots |-> Val(Default.self)]
    /\ depth = [i \in Slots |-> 0]
    /\ last = NoCall
    /\ memo = <<>>
    /\ deflated = NeverDeflated
    /\ feed \in Feeds
    /\ cache \in {None} \cup {Some(JsonDump(countries)) : countries \in Feeds}
    /\ model = LinearGrowth(None, None, <<>>)
    /\ extracted = {}
    /\ threads = NoThreads
    /\ defines = <<>>

NextCache ==
    \/ GetIso3ToCurrencyCodes
    \/ WriteCache(Dummies)
    \/ Unlink

SpecCache == InitCache /\ [][NextCache]_vars

---------------------------------------------------------------------------
(* extract_currency_units on every text of up to MaxFactors factors        *)

MaxFactors == 3

\* "USD_2020/USD_2020/EUR_2015", "USD_2020/XYZ_2021", "kW", ...
ExtractFactors ==
    {F(USD_2020), F(EUR_2015), F(XYZ_2020), Per(XYZ_2021), Per(Tok("kW"))}

ExtractTexts == UNION {[1..n -> ExtractFactors] : n \in 0..MaxFactors}

InitExtract ==
    /\ ureg = Default.units
    /\ params = [i \in Slots |-> Val(Default.self)]
    /\ depth = [i \in Slots |-> 0]
    /\ \E text \in ExtractTexts : last = [NoCall EXCEPT !.args.text = Some(text)]
    /\ memo = <<>>
    /\ deflated = NeverDeflated
    /\ cache = Some(JsonDump(countriesdata))
    /\ feed = countriesdata
    /\ model = LinearGrowth(None, None, <<>>)
    /\ extracted = {}
    /\ threads = NoThreads
    /\ defines = <<>>

NextExtract == ExtractCurrencyUnits

SpecExtract == InitExtract /\ [][NextExtract]_vars

---------------------------------------------------------------------------
(* Two threads in ureg.ensure_currency_is_unit, switched between any two   *)
(* steps of the loop                                                       *)

\* "EUR_2015", "EUR_2015/EUR_2023", "XYZ_2020", "kW"
ThreadTexts ==
    {<<F(EUR_2015)>>, <<F(EUR_2015), Per(EUR_2023)>>, <<F(XYZ_2020)>>, <<F(Tok("kW"))>>}

NextThreads ==
    \E t \in Threads : Enter(t, ThreadTexts) \/ Test(t) \/ Define(t) \/ Leave(t)

SpecThreads == Init /\ [][NextThreads]_vars

---------------------------------------------------------------------------
(* extract_currency_units called again and again while the cache file      *)
(* changes                                                                 *)

\* "USD_2020", "EUR_2015/kW", "XYZ_2020"
AgainTexts == {<<F(USD_2020)>>, <<F(EUR_2015), Per(Tok("kW"))>>, <<F(XYZ_2020)>>}

NextAgain ==
    \/ ExtractCurrencyUnitsAgain(AgainTexts)
    \/ GetIso3ToCurrencyCodes
    \/ WriteCache(Dummies)
    \/ Unlink

SpecAgain == InitCache /\ [][NextAgain]_vars

---------------------------------------------------------------------------
(* Growth models: GrowthModel and LinearGrowth *)

\* inspect.signature(self.function) without "x"
model_parameters == <<"m", "c">>

\* the keys of model_dump(include=model_parameters, exclude_none=True)
provided_parameters(self) ==
    SelectSeq(model_parameters, LAMBDA p : self[p] # None)

\* a plausible slip: every parameter of the function counts as missing
missing_parameters_All(self) == model_parameters

\* [p for p in self.model_parameters if p not in self.provided_parameters]
missing_parameters(self) ==
    LET provided == provided_parameters(self)
    IN  SelectSeq(model_parameters,
                  LAMBDA p : \A i \in 1..Len(provided) : provided[i] # p)

\* self.data_points.append(data_point); return self
add_data(self, data_point) ==
    [self EXCEPT !.data_points = Append(@, data_point)]

\* a plausible slip: the offset is left out
function_NoOffset(x, m, c) == RMul(m, x)

\* LinearGrowth.function: m * x + c
function(x, m, c) == RAdd(RMul(m, x), c)

\* the outcome of a method of a growth model
Grown(err, msg, val, self) == [err |-> err, msg |-> msg, val |-> val, self |-> self]

\* GrowthModel.project
project(self, to_year) ==
    IF Len(missing_parameters(self)) > 0
    THEN Grown("ValueError", missing_parameters(self), None, self)
    ELSE Grown("", <<>>, Some(function(Int2Rat(to_year), Val(self.m), Val(self.c))),
               self)

RECURSIVE RSum(_)
RSum(floats) ==
    IF Len(floats) = 0 THEN Int2Rat(0) ELSE RAdd(Head(floats), RSum(Tail(floats)))

\* xdata, ydata = zip(*self.data_points)
xdata(data_points) == [i \in 1..Len(data_points) |-> Int2Rat(data_points[i][1])]
ydata(data_points) == [i \in 1..Len(data_points) |-> Int2Rat(data_points[i][2])]

\* curve_fit(f=kwpartial(self.function, **fixed), xdata, ydata, p0): the
\* parameters that minimise the sum of the squared residuals, in the order of
\* free. Where the minimiser is unique it is the solution of the normal
\* equations; where the data do not determine it (no two different x for
\* m and c, no x but 0 for m) the result is one of the minimisers, started
\* from p0. Fewer points than parameters is TypeError ("Improper input").
curve_fit(free, fixed, xs, ys, p0) ==
    LET n == Int2Rat(Len(xs))
        Sx == RSum(xs)
        Sy == RSum(ys)
        Sxx == RSum([i \in 1..Len(xs) |-> RMul(xs[i], xs[i])])
        Sxy == RSum([i \in 1..Len(xs) |-> RMul(xs[i], ys[i])])
        D == RSub(RMul(n, Sxx), RMul(Sx, Sx))
        Offset(m) == RDiv(RSub(Sy, RMul(m, Sx)), n)
    IN  CASE Len(xs) < Len(free) -> {Raise("TypeError")}
          [] free = <<"m", "c">> ->
                LET Popt(m) == Ok(<<m, Offset(m)>>)
                IN  IF D.n # 0
                    THEN {Popt(RDiv(RSub(RMul(n, Sxy), RMul(Sx, Sy)), D))}
                    ELSE {Popt(p0[1]), Popt(Int2Rat(0))}
          [] free = <<"m">> ->
                IF Sxx.n # 0
                THEN {Ok(<<RDiv(RSub(Sxy, RMul(fixed.c, Sx)), Sxx)>>)}
                ELSE {Ok(<<p0[1]>>)}
          [] free = <<"c">> -> {Ok(<<Offset(fixed.m)>>)}
          [] OTHER -> {Ok(<<>>)}

\* for param, value in zip(self.missing_parameters, popt): setattr(self, param, value)
Setattr(self, names, popt) ==
    [f \in DOMAIN self |->
        IF \E i \in 1..Len(names) : names[i] = f
        THEN Some(popt[CHOOSE i \in 1..Len(names) : names[i] = f])
        ELSE self[f]]

\* a plausible slip: the test only asks whether there is any data
EnoughData_Any(self) == Len(self.data_points) >= 1

\* not (len(self.data_points) < len(self.missing_parameters))
EnoughData(self) == Len(self.data_points) >= Len(missing_parameters(self))

\* self.model_dump(include=self.provided_parameters, exclude_none=True)
model_dump(self) ==
    LET provided == provided_parameters(self)
    IN  [p \in {provided[i] : i \in 1..Len(provided)} |-> Val(self[p])]

\* GrowthModel.fit: the set of its possible outcomes
fit(self, p0) ==
    LET missing == missing_parameters(self)
        Fitted(guess) ==
            {IF r.err # "" THEN Grown(r.err, <<>>, None, self)
             ELSE LET fitted == Setattr(self, missing, r.val)
                  IN  Grown("", <<>>, Some(fitted), fitted) :
                r \in curve_fit(missing, model_dump(self), xdata(self.data_points),
                                ydata(self.data_points), guess)}
    IN  CASE Len(provided_parameters(self)) = Len(model_parameters) ->
                {Grown("", <<>>, Some(self), self)}
          [] ~EnoughData(self) ->
                {Grown("ValueError", <<Len(missing), Len(self.data_points)>>, None, self)}
          [] DOMAIN p0 # {} /\ \E i \in 1..Len(missing) : missing[i] \notin DOMAIN p0 ->
                {Grown("KeyError", <<>>, None, self)}
          [] DOMAIN p0 # {} -> Fitted([i \in 1..Len(missing) |-> p0[missing[i]]])
          [] OTHER -> Fitted([i \in 1..Len(missing) |-> Int2Rat(1)])

MaxPoints == 3

\* (0, 1), (1, 3), (2, 5) lie on 2 x + 1; (1, 3), (1, 5) have one x
Points == {<<0, 1>>, <<1, 3>>, <<1, 5>>, <<2, 5>>}

Slopes == Optional({Int2Rat(2)})
Offsets == Optional({Int2Rat(1)})

\* p0=None, p0={"m": 3, "c": 0}, p0={"c": 0}
Guesses == {None, [m |-> Int2Rat(3), c |-> Int2Rat(0)], [c |-> Int2Rat(0)]}

ToYears == {0, 10}

GrowthCall(op, args, err, msg, res) ==
    [op |-> op, self |-> "", other |-> "", args |-> args, err |-> err, msg |-> msg,
     res |-> res, equal |-> FALSE]

\* model = LinearGrowth(m=m, c=c)
NewLinearGrowth ==
    \E m \in Slopes, c \in Offsets :
        /\ model' = LinearGrowth(m, c, <<>>)
        /\ last' = GrowthCall("LinearGrowth", [m |-> m, c |-> c], "", <<>>, Some(model'))
        /\ UNCHANGED <<extract_vars, thread_vars, param_vars, rate_vars, cache_vars>>

\* model.add_data(data_point)
AddData ==
    /\ Len(model.data_points) < MaxPoints
    /\ \E data_point \in Points :
        /\ model' = add_data(model, data_point)
        /\ last' = GrowthCall("add_data", [data_point |-> data_point], "", <<>>,
                              Some(model'))
    /\ UNCHANGED <<extract_vars, thread_vars, param_vars, rate_vars, cache_vars>>

\* model.fit(p0)
Fit ==
    /\ \E p0 \in Guesses :
        \E r \in fit(model, p0) :
            /\ model' = r.self
            /\ last' = GrowthCall("fit", [p0 |-> p0], r.err, r.msg, r.val)
    /\ UNCHANGED <<extract_vars, thread_vars, param_vars, rate_vars, cache_vars>>

\* model.project(to_year)
Project ==
    /\ \E to_year \in ToYears :
        \E r \in {project(model, to_year)} :
            /\ model' = r.self
            /\ last' = GrowthCall("project", [to_year |-> to_year], r.err, r.msg, r.val)
    /\ UNCHANGED <<extract_vars, thread_vars, param_vars, rate_vars, cache_vars>>

NextGrowth ==
    \/ NewLinearGrowth
    \/ AddData
    \/ Fit
    \/ Project

SpecGrowth == Init /\ [][NextGrowth]_vars

---------------------------------------------------------------------------
(* LogisticGrowth                                                          *)
(* Floats of the form v or v * ln 2: np.log and np.exp are exact on the    *)
(* powers of two and on the integer multiples of ln 2.                     *)

\* v * (ln 2)^u
Float(v, u) == [v |-> v, u |-> u]
Plain(i) == Float(Int2Rat(i), 0)
Ln2(i) == Float(Int2Rat(i), 1)

FMul(a, b) == Float(RMul(a.v, b.v), IF RMul(a.v, b.v).n = 0 THEN 0 ELSE a.u + b.u)
FDiv(a, b) == Float(RDiv(a.v, b.v), IF RDiv(a.v, b.v).n = 0 THEN 0 ELSE a.u - b.u)
FAdd(a, b) ==
    CASE a.v.n = 0 -> b
      [] b.v.n = 0 -> a
      [] a.u = b.u -> Float(RAdd(a.v, b.v), IF RAdd(a.v, b.v).n = 0 THEN 0 ELSE a.u)
      [] OTHER -> Float(NaN, 0)
FNeg(a) == Float(RSub(Int2Rat(0), a.v), a.u)
FSub(a, b) == FAdd(a, FNeg(b))

\* a <= b: ln 2 is positive, the sign of v * (ln 2)^u is the sign of v
FLe(a, b) == ~IsNaN(FSub(a, b).v) /\ FSub(a, b).v.n <= 0

RECURSIVE Pow2(_)
Pow2(k) == IF k = 0 THEN 1 ELSE 2 * Pow2(k - 1)

\* the k with 2^k = n, for a power of two
RECURSIVE Log2(_)
Log2(n) == IF n <= 1 THEN 0 ELSE 1 + Log2(n \div 2)

\* np.log on the powers of two: log(2^k) = k * ln 2
np_log(x) ==
    CASE x.u = 0 /\ x.v.d = 1 /\ x.v.n = Pow2(Log2(x.v.n)) -> Ln2(Log2(x.v.n))
      [] x.u = 0 /\ x.v.n = 1 /\ x.v.d = Pow2(Log2(x.v.d)) -> Ln2(-Log2(x.v.d))
      [] OTHER -> Float(NaN, 0)

\* np.exp on the integer multiples of ln 2: exp(k * ln 2) = 2^k
np_exp(x) ==
    CASE x.v.n = 0 -> Plain(1)
      [] x.u = 1 /\ x.v.d = 1 /\ x.v.n > 0 -> Plain(Pow2(x.v.n))
      [] x.u = 1 /\ x.v.d = 1 /\ x.v.n < 0 -> Float(Rat(1, Pow2(-x.v.n)), 0)
      [] OTHER -> Float(NaN, 0)

\* bool(x) of a float or None
Bool(o) == o # None /\ Val(o).v.n # 0

LogisticGrowth(logistic_growth_rate, carrying_capacity, midpoint_year) ==
    [logistic_growth_rate |-> logistic_growth_rate,
     carrying_capacity |-> carrying_capacity,
     midpoint_year |-> midpoint_year]

\* the abstract methods a class of growth_models.py is left with: only
\* LinearGrowth defines function
abstractmethods(cls) == IF cls = "LinearGrowth" THEN {} ELSE {"function"}

\* @model_validator(mode="after") check_overspecification
check_overspecification(self) ==
    IF Cardinality({p \in DOMAIN self : self[p] # None}) # 2
    THEN Raise("ValueError")
    ELSE Ok(self)

\* LogisticGrowth(logistic_growth_rate=..., carrying_capacity=..., midpoint_year=...):
\* object.__new__ refuses a class with abstract methods before pydantic
\* validates anything
LogisticGrowthInit(logistic_growth_rate, carrying_capacity, midpoint_year) ==
    IF abstractmethods("LogisticGrowth") # {}
    THEN Raise("TypeError")
    ELSE check_overspecification(
             LogisticGrowth(logistic_growth_rate, carrying_capacity, midpoint_year))

\* the values the projection formula is evaluated with, and its value
Projected(L, r, t0, to_year) ==
    Ok([L |-> L, r |-> r, t0 |-> t0,
        projected |-> FDiv(L, FAdd(Plain(1),
                                   np_exp(FMul(FNeg(r), FSub(Plain(to_year), t0)))))])

\* LogisticGrowth.project, the body of the loop for one parameter and one
\* year: tinit and Linit are the year of the technology and the magnitude of
\* its parameter
LogisticProject(self, tinit, Linit, to_year) ==
    LET L0 == self.carrying_capacity
        r0 == self.logistic_growth_rate
        t00 == self.midpoint_year
        \* if r and t0: L = Linit * (1 + exp(-r * (tinit - t0)))
        FromRateAndMidpoint(L, r, t0) ==
            IF Bool(r) /\ Bool(t0)
            THEN LET derived ==
                         FMul(Linit,
                              FAdd(Plain(1),
                                   np_exp(FMul(FNeg(Val(r)),
                                               FSub(Plain(tinit), Val(t0))))))
                 IN  IF FLe(derived, Linit) THEN Raise("ValueError")
                     ELSE Projected(derived, Val(r), Val(t0), to_year)
            ELSE IF L = None \/ r = None \/ t0 = None THEN Raise("TypeError")
            ELSE Projected(Val(L), Val(r), Val(t0), to_year)
        \* if L and t0: r = (-1) * log(L - Linit) / (tinit - t0)
        FromCapacityAndMidpoint(L, r, t0) ==
            IF Bool(L) /\ Bool(t0)
            THEN LET derived ==
                         FDiv(FMul(Plain(-1), np_log(FSub(Val(L), Linit))),
                              FSub(Plain(tinit), Val(t0)))
                 IN  IF FLe(derived, Plain(0)) THEN Raise("ValueError")
                     ELSE FromRateAndMidpoint(L, Some(derived), t0)
            ELSE FromRateAndMidpoint(L, r, t0)
        \* if L and r: t0 = tinit - log(L / Linit - 1) / r
        FromCapacityAndRate(L, r, t0) ==
            IF Bool(L) /\ Bool(r)
            THEN LET derived ==
                         FSub(Plain(tinit),
                              FDiv(np_log(FSub(FDiv(Val(L), Linit), Plain(1))), Val(r)))
                 IN  IF FLe(derived, Plain(tinit)) THEN Raise("ValueError")
                     ELSE FromCapacityAndMidpoint(L, r, Some(derived))
            ELSE FromCapacityAndMidpoint(L, r, t0)
    IN  CASE FLe(Linit, Plain(0)) -> Raise("ValueError")
          [] L0 # None /\ FLe(Val(L0), Linit) -> Raise("ValueError")
          [] OTHER -> FromCapacityAndRate(L0, r0, t00)

\* logistic_growth_rate: ln 2 and 2 ln 2 per year
GrowthRates == Optional({Ln2(1), Ln2(2)})

\* carrying_capacity: 3/2, 3, 6, 12
Capacities == Optional({Float(Rat(3, 2), 0), Plain(3), Plain(6), Plain(12)})

\* midpoint_year
Midpoints == Optional({Plain(2019), Plain(2021)})

\* technologies.year
Tinit == 2020

\* the magnitude of the parameter of the technology
Magnitudes == {Plain(0), Plain(1), Plain(2), Plain(4), Plain(8)}

\* self.to_years
LogisticYears == {2020, 2021, 2022}

\* the anchors for which the logarithms of the code are logarithms of powers
\* of two
OnLattice(self, Linit) ==
    self.carrying_capacity # None =>
        \/ FLe(Val(self.carrying_capacity), Linit)
        \/ /\ ~IsNaN(np_log(FSub(Val(self.carrying_capacity), Linit)).v)
           /\ ~IsNaN(np_log(FSub(FDiv(Val(self.carrying_capacity), Linit), Plain(1))).v)

\* LogisticGrowth(logistic_growth_rate=r, carrying_capacity=L, midpoint_year=t0)
NewLogisticGrowth ==
    /\ \E r \in GrowthRates, L \in Capacities, t0 \in Midpoints :
        \E made \in {LogisticGrowthInit(r, L, t0)} :
            last' = GrowthCall("LogisticGrowth", LogisticGrowth(r, L, t0), made.err,
                               <<>>, IF made.err = "" THEN Some(made.val) ELSE None)
    /\ UNCHANGED <<extract_vars, thread_vars, param_vars, rate_vars, cache_vars, growth_vars>>

\* self.project(technologies), for a model that check_overspecification lets
\* through, one parameter of the technology and one year of to_years
ProjectLogistic ==
    /\ \E r \in GrowthRates, L \in Capacities, t0 \in Midpoints :
        \E Linit \in Magnitudes, to_year \in LogisticYears :
            \E self \in {LogisticGrowth(r, L, t0)} :
                /\ check_overspecification(self).err = ""
                /\ OnLattice(self, Linit)
                /\ \E made \in {LogisticProject(self, Tinit, Linit, to_year)} :
                       last' = GrowthCall("LogisticGrowth.project",
                                          [self |-> self, tinit |-> Tinit,
                                           Linit |-> Linit, to_year |-> to_year],
                                          made.err, <<>>,
                                          IF made.err = "" THEN Some(made.val) ELSE None)
    /\ UNCHANGED <<extract_vars, thread_vars, param_vars, rate_vars, cache_vars, growth_vars>>

NextLogistic ==
    \/ NewLogisticGrowth
    \/ ProjectLogistic

SpecLogistic == Init /\ [][NextLogistic]_vars

---------------------------------------------------------------------------
(* TechnologyCollection.fit and TechnologyCollection.project               *)

Technology(name, region, year, case, detailed_technology, parameters) ==
    [name |-> name, region |-> region, year |-> year, case |-> case,
     detailed_technology |-> detailed_technology, parameters |-> parameters]

\* Parameter(magnitude=magnitude, carrier=carrier)
Carrying(magnitude, carrier) ==
    Val(ParameterInit(Default.units,
                      Data(Int2Rat(magnitude), None, carrier, None, None, None,
                           NoSources)).self)

\* Parameter(magnitude=float("nan"), note="Placeholder parameters with NaN value.")
Placeholder ==
    Val(ParameterInit(Default.units,
                      Data(NaN, None, None, None, None, Some("Placeholder"),
                           NoSources)).self)

\* the loop of TechnologyCollection.fit: the exception it ends with, if any,
\* and the model with the data points added until then
RECURSIVE Aggregate(_, _, _, _)
Aggregate(technologies, parameter, first_param, growth_model) ==
    IF Len(technologies) = 0 THEN [err |-> "", model |-> growth_model]
    ELSE LET tech == Head(technologies)
             Checked(param, first) ==
                 IF check_parameter_compatibility(first, param) # ""
                 THEN [err |-> "ValueError", model |-> growth_model]
                 ELSE Aggregate(Tail(technologies), parameter, Some(first),
                                add_data(growth_model, <<tech.year, param.magnitude.n>>))
         IN  IF parameter \notin DOMAIN tech.parameters
             THEN [err |-> "KeyError", model |-> growth_model]
             ELSE Checked(tech.parameters[parameter],
                          IF first_param = None THEN tech.parameters[parameter]
                          ELSE Val(first_param))

\* TechnologyCollection.fit: the set of its possible outcomes
collection_fit(technologies, parameter, growth_model, p0) ==
    LET Fitted(a) ==
            IF a.err # "" THEN {Grown(a.err, <<>>, None, a.model)}
            ELSE fit(a.model, p0)
    IN  Fitted(Aggregate(technologies, parameter, None, growth_model))

\* what the caller's model is after its model_copy() was fitted: the copy is
\* shallow, the list data_points is the one of the original
model_copy(self, copied) == [self EXCEPT !.data_points = copied.data_points]

\* self.technologies[0].parameters[param].model_copy(deep=True) with the
\* projected magnitude
Projection(param, param_value) ==
    [param EXCEPT !.magnitude = param_value, !.provenance = Some("Projected"),
                  !.note = None, !.sources = None]

\* the loops over to_years and parameters.items(), flattened into work:
\* acc holds the exception, the models of parameters (None for "NaN") and the
\* parameters made so far
RECURSIVE Projecting(_, _, _)
Projecting(technologies, work, acc) ==
    IF Len(work) = 0 \/ acc.err # "" THEN {acc}
    ELSE LET to_year == Head(work).to_year
             name == Head(work).param
             Made(a, new_param) ==
                 [a EXCEPT !.made = Append(@, [to_year |-> to_year, param |-> name,
                                              new_param |-> new_param])]
             Step(original, o) ==
                 LET shared == [acc EXCEPT !.models[name] = Some(model_copy(original, o.self))]
                     Valued(v) ==
                         IF v.err # "" THEN {[shared EXCEPT !.err = v.err]}
                         ELSE Projecting(technologies, Tail(work),
                                         Made(shared,
                                              Projection(technologies[1].parameters[name],
                                                         Val(v.val))))
                 IN  IF o.err # "" THEN {[shared EXCEPT !.err = o.err]}
                     ELSE Valued(project(o.self, to_year))
         IN  IF acc.models[name] = None
             THEN Projecting(technologies, Tail(work), Made(acc, Placeholder))
             ELSE UNION {Step(Val(acc.models[name]), o) :
                            o \in collection_fit(technologies, name,
                                                 Val(acc.models[name]), None)}

\* the Technology objects of the result, one for each year of to_years
Projections(technologies, to_years, made) ==
    [i \in 1..Len(to_years) |->
        Technology(technologies[1].name, technologies[1].region, to_years[i],
                   technologies[1].case, technologies[1].detailed_technology,
                   [name \in {made[k].param : k \in {k \in 1..Len(made) :
                                                        made[k].to_year = to_years[i]}} |->
                       made[CHOOSE k \in 1..Len(made) :
                                made[k].to_year = to_years[i] /\ made[k].param = name]
                           .new_param])]

\* TechnologyCollection(technologies=[...])
TechnologyCollection(technologies) == [technologies |-> technologies]

\* keep_remaining: bool | str = "closest"
keep_remaining_default == "closest"

\* TechnologyCollection.project(to_years, parameter, model, keep_remaining):
\* the set of its possible outcomes, each with the caller's model after the
\* call. order is the order in which the remaining parameters come out of
\* the set remaining_params.
collection_project(technologies, to_years, parameter, growth_model, keep_remaining, order) ==
    LET all_params == UNION {DOMAIN technologies[i].parameters :
                                i \in 1..Len(technologies)}
        remaining_params == all_params \ {parameter}
        kept == IF keep_remaining \in {"NaN", "mean"}
                THEN [i \in 1..Len(order) |-> order[i]] ELSE <<>>
        items == <<parameter>> \o kept
        parameters ==
            [name \in {parameter} \cup Elements(kept) |->
                CASE name = parameter -> Some(growth_model)
                  [] keep_remaining = "mean" ->
                        Some(LinearGrowth(Some(Int2Rat(0)), None, <<>>))
                  [] OTHER -> None]
        work == [k \in 1..(Len(to_years) * Len(items)) |->
                    [to_year |-> to_years[((k - 1) \div Len(items)) + 1],
                     param |-> items[((k - 1) % Len(items)) + 1]]]
        Returned(acc) ==
            [err |-> acc.err,
             val |-> IF acc.err # "" THEN None
                     ELSE Some(TechnologyCollection(Projections(technologies, to_years,
                                                                acc.made))),
             model |-> Val(acc.models[parameter])]
    IN  CASE keep_remaining = "closest" ->
                {[err |-> "NotImplementedError", val |-> None, model |-> growth_model]}
          [] Len(to_years) > 0 /\ Len(technologies) = 0 ->
                {[err |-> "IndexError", val |-> None, model |-> growth_model]}
          [] OTHER ->
                {Returned(acc) :
                    acc \in Projecting(technologies, work,
                                       [err |-> "", models |-> parameters, made |-> <<>>])}

MaxTechnologies == 2

\* capacity and investment observed in DE in the years 20 and 21; capacity
\* only in FR in 21; capacity of hydrogen in DE in 22
Technologies ==
    {Technology("solar", "DE", 20, "", "",
                [capacity |-> Carrying(1, None), investment |-> Carrying(4, None)]),
     Technology("solar", "DE", 21, "", "",
                [capacity |-> Carrying(3, None), investment |-> Carrying(7, None)]),
     Technology("solar", "FR", 21, "", "", [capacity |-> Carrying(9, None)]),
     Technology("solar", "DE", 22, "", "",
                [capacity |-> Carrying(5, Some(H2)), investment |-> Carrying(6, None)])}

Collections == UNION {[1..n -> Technologies] : n \in 1..MaxTechnologies}

ParameterNames == {"capacity", "investment"}

ToYearLists == {<<30>>, <<30, 31>>}

\* keep_remaining: not given, False, "NaN", "mean", "closest"
KeepRemaining == {None, Some("False"), Some("NaN"), Some("mean"), Some("closest")}

\* model = LinearGrowth(m=m, c=c, data_points=[(19, 2)]): a point from
\* earlier use
NewLinearGrowthWithData ==
    \E m \in Slopes, c \in Offsets :
        /\ model' = LinearGrowth(m, c, << <<19, 2>> >>)
        /\ last' = GrowthCall("LinearGrowth", [m |-> m, c |-> c], "", <<>>, Some(model'))
        /\ UNCHANGED <<extract_vars, thread_vars, param_vars, rate_vars, cache_vars>>

\* model = collection.fit(parameter, model), for a model that was not passed
\* to a collection before
CollectionFit ==
    /\ last.op = "LinearGrowth"
    /\ \E technologies \in Collections, parameter \in ParameterNames :
        \E o \in collection_fit(technologies, parameter, model, None) :
            /\ model' = o.self
            /\ last' = GrowthCall("TechnologyCollection.fit",
                                  [technologies |-> technologies, parameter |-> parameter],
                                  o.err, o.msg, o.val)
    /\ UNCHANGED <<extract_vars, thread_vars, param_vars, rate_vars, cache_vars>>

\* collection.project(to_years, parameter, model, keep_remaining)
CollectionProject ==
    /\ last.op = "LinearGrowth"
    /\ \E technologies \in Collections, parameter \in ParameterNames,
          to_years \in ToYearLists, keep_remaining \in KeepRemaining :
        \E order \in Orderings((UNION {DOMAIN technologies[i].parameters :
                                          i \in 1..Len(technologies)}) \ {parameter}) :
            \E o \in collection_project(technologies, to_years, parameter, model,
                                        IF keep_remaining = None
                                        THEN keep_remaining_default
                                        ELSE Val(keep_remaining), order) :
                /\ model' = o.model
                /\ last' = GrowthCall("TechnologyCollection.project",
                                      [technologies |-> technologies,
                                       parameter |-> parameter, to_years |-> to_years,
                                       keep_remaining |-> keep_remaining],
                                      o.err, <<>>, o.val)
    /\ UNCHANGED <<extract_vars, thread_vars, param_vars, rate_vars, cache_vars>>

NextCollection ==
    \/ NewLinearGrowth
    \/ NewLinearGrowthWithData
    \/ CollectionFit
    \/ CollectionProject

SpecCollection == Init /\ [][NextCollection]_vars

---------------------------------------------------------------------------
(* Claims *)

Self == params[last.self]
Other == params[last.other]
Given == Val(last.args.data)
Result == Val(last.res)

\* every token of the text is a unit of the registry it is parsed with, and
\* every currency token has a code of the authoritative set
Recognised(reg, text) ==
    \A i \in 1..Len(text) :
        IF CURRENCY_UNIT_PATTERN(text[i].t)
        THEN reg = "ureg" /\ text[i].t.n \in all_currency_codes
        ELSE text[i].t.n \in DOMAIN Aliases(reg)

AllRecognised(data) ==
    /\ data.units # None => Recognised("ureg", Val(data.units))
    /\ data.carrier # None => Recognised("creg", Val(data.carrier))
    /\ data.heating_value # None => Recognised("hvreg", Val(data.heating_value))

\* C1: a construction whose units, carrier and heating value are all
\* recognised raises ValueError if and only if a heating value is given
\* without a carrier, and yields a Parameter in every other case.
C1_ConstructionFailsIffHeatingValueWithoutCarrier ==
    (last.op = "Parameter" /\ AllRecognised(Given)) =>
        LET bad == Given.heating_value # None /\ Given.carrier = None
        IN  /\ bad <=> last.err = "ValueError"
            /\ ~bad <=> (last.err = "" /\ Truthy(last.res))

C1_Witness ==
    /\ last.op = "Parameter"
    /\ AllRecognised(Given)
    /\ Given.units # None
    /\ Given.heating_value # None
    /\ Given.carrier = None
    /\ last.err = "ValueError"

\* C2: p1 + p2 and p1 - p2 raise ValueError whenever the carriers or the
\* heating values of the operands differ (None differs from a present value);
\* when both match they do not raise it, they succeed if the units can be
\* added, and the Parameter returned has the shared carrier and heating value.
C2_AddSubCompatibility ==
    last.op \in {"add", "sub"} =>
        LET differ == \/ Self.carrier # Other.carrier
                      \/ Self.heating_value # Other.heating_value
            addable == Dimensionality(Self.pint_quantity.u)
                           = Dimensionality(Other.pint_quantity.u)
        IN  /\ differ <=> last.err = "ValueError"
            /\ (~differ /\ addable) => last.err = ""
            /\ last.err = "" =>
                /\ Truthy(last.res)
                /\ Result.carrier = Self.carrier
                /\ Result.heating_value = Self.heating_value
                /\ Result.carrier = Other.carrier
                /\ Result.heating_value = Other.heating_value

C2_Witness ==
    /\ last.op = "sub"
    /\ Self.carrier = Other.carrier
    /\ Self.carrier # None
    /\ Self.heating_value = None
    /\ Other.heating_value # None
    /\ last.err = "ValueError"

\* C3: p1 * p2 and p1 / p2 succeed and return a Parameter whenever the
\* heating values of the operands are equal, both being None included; with
\* both carriers present the carrier of the result is their product or
\* quotient; ValueError is raised only when the heating values differ.
C3_MulDivNeedsOnlyEqualHeatingValues ==
    last.op \in {"mul", "truediv"} =>
        /\ Self.heating_value = Other.heating_value =>
            /\ last.err = ""
            /\ Truthy(last.res)
            /\ (Self.carrier # None /\ Other.carrier # None) =>
                Result.pint_carrier =
                    Some(IF last.op = "mul"
                         THEN UnitMul("creg", Val(Self.pint_carrier), Val(Other.pint_carrier))
                         ELSE UnitDiv("creg", Val(Self.pint_carrier), Val(Other.pint_carrier)))
        /\ last.err = "ValueError" => Self.heating_value # Other.heating_value

\* the units field as a text, None being the text without factors
UnitsText(self) == IF self.units = None THEN <<>> ELSE Val(self.units)

\* the currency tokens of a text, as a collection without order
Tokens(text) == {text[i].t : i \in {k \in 1..Len(text) : IsCurrencyFactor(text[k])}}

\* the factors of a text that are no currency tokens
NonCurrency(text) == SelectSeq(text, LAMBDA f : ~IsCurrencyFactor(f))

\* C4: p.to(new_units) raises NotImplementedError exactly when the currency
\* tokens of new_units differ, as a collection irrespective of order, from
\* those of the current units of p; with the same tokens it converts and
\* returns a Parameter in the new units.
C4_ToRejectsExactlyOtherCurrencies ==
    last.op = "to" =>
        LET new_units == Val(last.args.text)
            same == Tokens(new_units) = Tokens(UnitsText(Self))
        IN  /\ ~same <=> last.err = "NotImplementedError"
            /\ (same /\ Dimensionality(Container("ureg", new_units))
                            = Dimensionality(Container("ureg", UnitsText(Self)))) =>
                /\ last.err = ""
                /\ Truthy(last.res)
                /\ Result.units = Some(StrUnit(Container("ureg", new_units)))

\* the derived attributes are the ones the fields give
UpToDate(self) == update_pint_attributes(ureg, self).self = self

\* C5: to, change_currency, +, -, * and / leave the receiver as it was before
\* the call, the derived quantity included (stated for a receiver whose
\* derived attributes are up to date when the call is made).
C5_ReceiverUnchanged ==
    [][(last'.op \in Methods /\ UpToDate(params[last'.self]))
           => params'[last'.self] = params[last'.self]]_vars

\* the method of a call applied to operands whose derived attributes are
\* recomputed from their fields first
FromCurrentFields(call) ==
    LET s == update_pint_attributes(ureg, params[call.self]).self
        o == IF call.other = "" THEN s
             ELSE update_pint_attributes(ureg, params[call.other]).self
    IN  CASE call.op = "to" -> to(ureg, s, Val(call.args.text))
          [] call.op = "change_currency" ->
                change_currency(ureg, s, Val(call.args.to_currency),
                                call.args.country, call.args.source)
          [] call.op = "add" -> add(ureg, s, o)
          [] call.op = "sub" -> sub(ureg, s, o)
          [] call.op = "mul" -> mul(ureg, s, o)
          [] OTHER -> truediv(ureg, s, o)

\* C6: after a direct assignment to magnitude or units every method that
\* uses the derived attributes computes its outcome from the current values
\* of the fields.
C6_MethodsUseCurrentFields ==
    last.op \in Methods =>
        /\ last.err = FromCurrentFields(last).err
        /\ last.res = FromCurrentFields(last).res

\* str(ureg.Unit(units)) of the units field
CanonicalUnits(self) ==
    IF self.units = None THEN None
    ELSE Some(StrUnit(Container("ureg", Val(self.units))))

\* the seven public fields match, None matching only None
FieldsMatch(self, other) ==
    /\ self.magnitude = other.magnitude
    /\ CanonicalUnits(self) = CanonicalUnits(other)
    /\ self.carrier = other.carrier
    /\ self.heating_value = other.heating_value
    /\ self.provenance = other.provenance
    /\ self.note = other.note
    /\ self.sources = other.sources

\* C7: two Parameters compare equal exactly when magnitude, canonicalised
\* units, carrier, heating value, provenance, note and sources all match;
\* nothing else, the earlier calls on either object included, has a part in it.
C7_EqualityIsEqualityOfFields ==
    last.op = "eq" => (last.equal <=> FieldsMatch(Self, Other))

\* C8: p.change_currency(to_currency, country, source) returns a Parameter
\* whose units are those of p with every currency token replaced by
\* to_currency, and whose carrier, heating value, provenance, note and
\* sources are those of p.
C8_ChangeCurrencyReplacesEveryToken ==
    (last.op = "change_currency" /\ last.err = "") =>
        LET from_units == Container("ureg", UnitsText(Self))
            to_units == Val(Result.units)
        IN  /\ Truthy(last.res)
            /\ Tokens(to_units) \subseteq {Val(last.args.to_currency)}
            /\ Tokens(from_units) # {} => Tokens(to_units) = {Val(last.args.to_currency)}
            /\ NonCurrency(to_units) = NonCurrency(StrUnit(from_units))
            /\ Dimensionality(to_units) = Dimensionality(from_units)
            /\ Result.carrier = Self.carrier
            /\ Result.heating_value = Self.heating_value
            /\ Result.provenance = Self.provenance
            /\ Result.note = Self.note
            /\ Result.sources = Self.sources

C8_Witness ==
    /\ last.op = "change_currency"
    /\ last.err = ""
    /\ Tokens(UnitsText(Self)) = {USD_2020, EUR_2023}
    /\ Val(last.args.to_currency) = EUR_2023
    /\ Tokens(Val(Result.units)) = {EUR_2023}
    /\ Self.carrier # None
    /\ Self.sources # NoSources

\* C9: change_currency is idempotent at its target: applied to a Parameter
\* that is already expressed in to_currency, as p.change_currency(to_currency,
\* ...) is, it returns the magnitude and the units of that Parameter.
C9_ChangeCurrencyIdempotent ==
    (/\ last.op = "change_currency"
     /\ last.err = ""
     /\ Tokens(UnitsText(Self)) = {Val(last.args.to_currency)}) =>
        /\ Result.magnitude = Self.magnitude
        /\ Result.units = Self.units

\* the second call of p.change_currency(EUR_2023, ...).change_currency(EUR_2023, ...)
C9_Witness ==
    /\ last.op = "change_currency"
    /\ last.err = ""
    /\ depth[last.self] = 1
    /\ Val(last.args.to_currency) = EUR_2023
    /\ Tokens(UnitsText(Self)) = {EUR_2023}
    /\ Self.magnitude # Int2Rat(1)
    /\ Result.magnitude = Self.magnitude

\* the sources change_currency documents and the ones get_conversion_rate knows
SupportedSources == {"worldbank", "imf", "international_monetary_fund"}

\* C10: change_currency fails, for every Parameter and every target, whenever
\* the code of the target currency is invalid, the country cannot be
\* resolved, or the source is not supported.
C10_ChangeCurrencyFailsOnInvalidArguments ==
    (/\ last.op = "change_currency"
     /\ \/ Val(last.args.to_currency).n \notin all_currency_codes
        \/ last.args.country \notin Countries
        \/ last.args.source \notin SupportedSources) =>
        /\ last.err # ""
        /\ last.res = None

\* the currencies change_currency needs a rate for: all but the reference
NeedsRate(self, to_currency) ==
    (Tokens(UnitsText(self)) \cup {to_currency}) \ {USD_2020}

\* C11: change_currency accepts the source names 'worldbank' and 'imf': a
\* call with source='imf', a valid target and a known country on a Parameter
\* that needs a conversion rate does not fail with KeyError, it returns what
\* the IMF deflator gives.
C11_ImfIsAnAcceptedSource ==
    (/\ last.op = "change_currency"
     /\ last.args.source = "imf"
     /\ last.args.country \in Countries
     /\ Val(last.args.to_currency).n \in all_currency_codes
     /\ NeedsRate(Self, Val(last.args.to_currency)) # {}) =>
        /\ last.err # "KeyError"
        /\ last.res = change_currency(ureg, Self, Val(last.args.to_currency),
                                      last.args.country,
                                      "international_monetary_fund").res

\* C12: over any sequence of get_conversion_rate calls pydeflate is called at
\* most once for each argument tuple, however many other tuples were asked
\* for in between, and every call returns the rate of its tuple.
C12_EachTupleDeflatedOnce ==
    /\ deflated.again = {}
    /\ (last.op = "get_conversion_rate" /\ last.err = "") =>
            last.res = Some(get_conversion_rate(
                                last.args.key.from_iso3, last.args.key.to_iso3,
                                last.args.key.country, last.args.key.from_year,
                                last.args.key.to_year, last.args.key.source).val)

\* C13: after a call of get_iso3_to_currency_codes with refresh=True,
\* whatever the value of ignore_cache, the cache file exists and holds the
\* mapping just fetched from the live feed, and the call returns that mapping.
C13_RefreshRebuildsTheCache ==
    (last.op = "get_iso3_to_currency_codes" /\ last.args.refresh) =>
        /\ cache # None
        /\ cache = Some(JsonDump(feed))
        /\ last.res = Some(feed)

\* C14: a call of get_iso3_to_currency_codes with ignore_cache=True returns
\* the live data and leaves the cache file as the call found it (not created,
\* not deleted, not rewritten), whatever the value of refresh.
C14_IgnoreCacheLeavesTheCache ==
    (last.op = "get_iso3_to_currency_codes" /\ last.args.ignore_cache) =>
        /\ last.res = Some(feed)
        /\ cache = last.args.found

RECURSIVE CurrencyTokens(_)
\* the currency-year tokens of a text, in order of appearance
CurrencyTokens(text) ==
    IF text = <<>> THEN <<>>
    ELSE (IF CURRENCY_UNIT_PATTERN(Head(text).t) THEN <<Head(text).t>> ELSE <<>>)
         \o CurrencyTokens(Tail(text))

Registers(call) ==
    CASE call.op = "ensure_currency_is_unit" -> call.args.text
      [] call.op = "Parameter" -> Val(call.args.data).units
      [] OTHER -> None

C17_RegistryKeepsNanFactors ==
    /\ {t \in DOMAIN ureg : ureg[t].of = None} = {USD_2020}
    /\ \A t \in DOMAIN ureg \ {USD_2020} :
           /\ IsNaN(ureg[t].f)
           /\ ureg[t].of = Some(USD_2020)

\* a change_currency that used a rate for EUR_2023 and returned
C17_Witness ==
    /\ last.op = "change_currency"
    /\ last.err = ""
    /\ Val(last.args.to_currency) = EUR_2023
    /\ Tokens(UnitsText(Self)) = {USD_2020}
    /\ Result.magnitude # Self.magnitude
    /\ EUR_2023 \in DOMAIN ureg

\* the parameters of a growth model that are still None
Missing(self) == {p \in {"m", "c"} : self[p] = None}

C19_FitNeedsEnoughData ==
    [][(/\ last'.op = "fit"
        /\ Missing(model) # {}
        /\ Len(model.data_points) < Cardinality(Missing(model)))
           => last'.err = "ValueError" /\ model' = model]_vars

\* fit() with one data point and both parameters missing
C19_Witness ==
    /\ last.op = "fit"
    /\ last.err = "ValueError"
    /\ last.msg = <<2, 1>>
    /\ Missing(model) = {"m", "c"}
    /\ Len(model.data_points) = 1

\* C20: Unfit -> Fit, Fit terminal. add_data, fit and project never change a
\* parameter that is fixed, so none at all once every parameter is resolved; a
\* fit that succeeds leaves no parameter missing and returns the model; fit on
\* a fully resolved model changes nothing and returns the model; add_data
\* appends its point to data_points and the other two leave data_points alone.
C20_FitIsTerminal ==
    [][last'.op \in {"add_data", "fit", "project"} =>
           /\ \A p \in {"m", "c"} \ Missing(model) : model'[p] = model[p]
           /\ (last'.op = "fit" /\ last'.err = "") =>
                  Missing(model') = {} /\ last'.res = Some(model')
           /\ (last'.op = "fit" /\ Missing(model) = {}) =>
                  last'.err = "" /\ model' = model
           /\ IF last'.op = "add_data"
              THEN /\ last'.err = ""
                   /\ model'.data_points =
                          Append(model.data_points, last'.args.data_point)
              ELSE model'.data_points = model.data_points]_vars

\* both parameters fitted to (1, 3), (2, 5), (1, 5): m = 1, c = 3
C20_Witness ==
    /\ last.op = "fit"
    /\ last.err = ""
    /\ Len(model.data_points) = 3
    /\ model.m = Some(Int2Rat(1))
    /\ model.c = Some(Int2Rat(3))

\* the parameters of a logistic model that are given
Supplied(self) == {p \in DOMAIN self : self[p] # None}

\* C21: the construction of a LogisticGrowth succeeds if and only if exactly
\* two of logistic_growth_rate, carrying_capacity and midpoint_year are given,
\* and fails with ValueError with none, one or three of them.
C21_LogisticNeedsExactlyTwo ==
    last.op = "LogisticGrowth" =>
        IF Cardinality(Supplied(last.args)) = 2
        THEN last.err = "" /\ last.res = Some(last.args)
        ELSE last.err = "ValueError"

Carriers(technologies, parameter) ==
    {i \in 1..Len(technologies) : parameter \in DOMAIN technologies[i].parameters}

\* two technologies carry the parameter with another carrier or heating value
Incompatible(technologies, parameter) ==
    \E i, j \in Carriers(technologies, parameter) :
        \/ technologies[i].parameters[parameter].carrier
               # technologies[j].parameters[parameter].carrier
        \/ technologies[i].parameters[parameter].heating_value
               # technologies[j].parameters[parameter].heating_value

\* (technology.year, parameter.magnitude) of every technology, in order
Observations(technologies, parameter) ==
    [i \in 1..Len(technologies) |->
        <<technologies[i].year, technologies[i].parameters[parameter].magnitude.n>>]

\* C22: TechnologyCollection.fit raises ValueError if two technologies carry
\* the parameter with different carriers or heating values; otherwise it adds
\* one data point (year, magnitude) for each technology, in the order of the
\* collection, to the model, calls the model's fit and returns the model.
C22_FitAddsOnePointPerTechnology ==
    [][last'.op = "TechnologyCollection.fit" =>
           LET technologies == last'.args.technologies
               parameter == last'.args.parameter
           IN  IF Incompatible(technologies, parameter)
               THEN last'.err = "ValueError"
               ELSE /\ Carriers(technologies, parameter) = 1..Len(technologies)
                    /\ model'.data_points =
                           model.data_points \o Observations(technologies, parameter)
                    /\ \E o \in fit([model EXCEPT !.data_points = model'.data_points],
                                    None) :
                           o.err = last'.err /\ o.self = model'
                    /\ last'.err = "" => last'.res = Some(model')]_vars

\* C29: when TechnologyCollection.fit raises ValueError because of
\* incompatible parameters, the model is as it was before the call: no data
\* point was added and no parameter was set.
C29_FailedFitLeavesTheModel ==
    [][(/\ last'.op = "TechnologyCollection.fit"
        /\ last'.err = "ValueError"
        /\ Incompatible(last'.args.technologies, last'.args.parameter))
           => model' = model]_vars

\* the modelled parameter of a call of project can be fitted
Fittable(technologies, parameter, growth_model) ==
    \E o \in collection_fit(technologies, parameter, growth_model, None) : o.err = ""

\* the mean of the magnitudes of a parameter over the technologies that carry it
Mean(technologies, parameter) ==
    LET carriers == SelectSeq(technologies, LAMBDA t : parameter \in DOMAIN t.parameters)
    IN  RDiv(RSum([i \in 1..Len(carriers) |-> carriers[i].parameters[parameter].magnitude]),
             Int2Rat(Len(carriers)))

\* C23: project handles every parameter that occurs in some technology and
\* has no model as keep_remaining says: left out for False, included with a
\* NaN magnitude for "NaN", included with the mean of its magnitudes over the
\* collection, for every target year, for "mean"; "closest" raises
\* NotImplementedError and there is no result.
C23_KeepRemainingIsFollowed ==
    [][(/\ last'.op = "TechnologyCollection.project"
        /\ last'.args.keep_remaining # None
        /\ Fittable(last'.args.technologies, last'.args.parameter, model))
           => LET technologies == last'.args.technologies
                  keep_remaining == Val(last'.args.keep_remaining)
                  remaining_params ==
                      (UNION {DOMAIN technologies[i].parameters :
                                 i \in 1..Len(technologies)}) \ {last'.args.parameter}
                  projected == Val(last'.res).technologies
                  Handled(Expected(_, _)) ==
                      /\ last'.err = ""
                      /\ \A i \in 1..Len(projected) : \A name \in remaining_params :
                             Expected(projected[i].parameters, name)
              IN  CASE keep_remaining = "closest" ->
                          last'.err = "NotImplementedError" /\ last'.res = None
                    [] keep_remaining = "False" ->
                          Handled(LAMBDA made, name : name \notin DOMAIN made)
                    [] keep_remaining = "NaN" ->
                          Handled(LAMBDA made, name :
                                      name \in DOMAIN made /\ IsNaN(made[name].magnitude))
                    [] keep_remaining = "mean" ->
                          Handled(LAMBDA made, name :
                                      /\ name \in DOMAIN made
                                      /\ made[name].magnitude = Mean(technologies, name))
                    [] OTHER -> TRUE]_vars

\* C24: project fits a private copy of the model it is given: the caller's
\* model has the data points and parameters it had before the call, and the
\* value for every target year is the one of a fit of that model to the
\* collection alone.
C24_ProjectFitsAPrivateCopy ==
    [][last'.op = "TechnologyCollection.project" =>
           /\ model' = model
           /\ last'.err = "" =>
                  \A i \in 1..Len(last'.args.to_years) :
                      Val(last'.res).technologies[i].parameters[last'.args.parameter].magnitude \in
                          {project(o.self, last'.args.to_years[i]).val[1] :
                              o \in {o \in collection_fit(last'.args.technologies,
                                                          last'.args.parameter, model,
                                                          None) : o.err = ""}}]_vars

\* C25: project with target years and a model for a parameter, and no
\* keep_remaining, returns one Technology for each target year, in order, with
\* the year of the target and with the modelled parameter and no other.
C25_ProjectWithoutKeepRemaining ==
    [][(/\ last'.op = "TechnologyCollection.project"
        /\ last'.args.keep_remaining = None
        /\ Fittable(last'.args.technologies, last'.args.parameter, model))
           => /\ last'.err = ""
              /\ Len(Val(last'.res).technologies) = Len(last'.args.to_years)
              /\ \A i \in 1..Len(last'.args.to_years) :
                     LET projected == Val(last'.res).technologies[i]
                     IN  /\ projected.year = last'.args.to_years[i]
                         /\ DOMAIN projected.parameters = {last'.args.parameter}]_vars

\* (name, region, case, detailed_technology)
Identity(tech) == <<tech.name, tech.region, tech.case, tech.detailed_technology>>

\* C28: fit and project build one time series for each technology identity
\* and parameter: the data points that one fit adds all come from technologies
\* of one identity, and the parameter of a projected Technology has the value
\* of a fit to the observations of the identity the Technology is labelled with.
C28_OneSeriesPerIdentity ==
    [][/\ (last'.op = "TechnologyCollection.fit" /\ last'.err = "") =>
              \A i, j \in 1..Len(last'.args.technologies) :
                  Identity(last'.args.technologies[i])
                      = Identity(last'.args.technologies[j])
       /\ (last'.op = "TechnologyCollection.project" /\ last'.err = "") =>
              \A i \in 1..Len(last'.args.to_years) :
                  LET labelled == Val(last'.res).technologies[i]
                      observed == SelectSeq(last'.args.technologies,
                                            LAMBDA t : Identity(t) = Identity(labelled))
                  IN  labelled.parameters[last'.args.parameter].magnitude \in
                          {project(o.self, labelled.year).val[1] :
                              o \in {o \in collection_fit(observed, last'.args.parameter,
                                                          model, None) : o.err = ""}}]_vars

\* C30: extract_currency_units judges the currency codes of its argument
\* against the code set as it is when it is called: what a call returns or
\* raises is what the function computes from the codes that
\* get_iso3_to_currency_codes() gives at that moment, also for an argument that
\* was accepted earlier.
C30_ExtractJudgesAgainstTheCodesOfTheCall ==
    last.op = "extract_currency_units" =>
        LET currencies == get_iso3_to_currency_codes(last.args.found, feed, FALSE, FALSE)
            r == extract_currency_units_wrapped(Values(currencies.val), last.args.text)
        IN  last.err = r.err /\ last.res = Some(r.val)

\* C26: the registration of a currency unit is an atomic define-if-absent:
\* of the threads that call ensure_currency_is_unit with a token that is not
\* registered, one defines it and no thread defines a unit that is already
\* defined, so every unit is defined once.
C26_UnitsAreDefinedOnce ==
    /\ \A i \in 1..Len(defines) : ~defines[i].redefined
    /\ \A i, j \in 1..Len(defines) : defines[i].unit = defines[j].unit => i = j

====
